---------------------------- MODULE Spec2Model ----------------------------
(***************************************************************************)
(* Lineup-Optimization: the batting-order search of                        *)
(* web-server/lineup_calculator.py (compiled module under                  *)
(* src/web-server/__pycache__), the four-step build controller of the      *)
(* web-app with its handedness pre-check, the submit-lineup API handler,   *)
(* and the per-worker min-heap search of the specification, which has no   *)
(* code under src/.  A behaviour is a run of one of the four: Init picks   *)
(* which, and the variables of the others stay idle.                       *)
(*                                                                         *)
(* Scores are kept in ninths: _score_lineup multiplies every tensor entry  *)
(* by 1 + (8 - pos)/9 (pos < 8) or 1 (pos = 8), i.e. by (17 - pos)/9, so   *)
(* nine times the score of an integer tensor is an integer and the order   *)
(* of two scores is the order of their ninths.                             *)
(***************************************************************************)
EXTENDS Integers, Sequences, FiniteSets, TLC

VARIABLES
    \* ---- optimize_lineup (lineup_calculator.py): arguments and outcome
    val,                    \* per-hitter strength the BDNRP csv is derived from
    player_handedness,      \* hitter index -> "LEFT" | "RIGHT" | "SWITCH"
    max_consecutive_left,
    max_consecutive_right,
    constrained_positions,  \* batting position (0-8) -> hitter index
    unconstrained_players,  \* sequence of hitter indices that can be moved
    available_positions,    \* sequence of batting positions left to fill
    return_top_n,           \* top_n of the next request
    top_list,               \* what optimize_lineup returned for top_n = return_top_n - 1
    prev_top_list,          \* what it returned for the top_n before that
    enumerated,             \* len(all_lineups) of the last call, before the filter
    scored,                 \* len(scores) of the last call
    \* ---- BuildController (four steps): React state and what it has done
    step,                   \* 0 players, 1 constraints, 2 pitcher, 3 review
    selectedPlayerSeasons,  \* sequence of [battingHand, season]
    maxConsecutiveHandedness,   \* << left, right >>
    toasted,                \* the "Impossible handedness constraint" toast was shown
    submitted,              \* handleSubmit calls: the caps each was given
    \* ---- /api/submit-lineup handler: the request and the handler's locals
    method,                 \* req.method
    selectedLineup,         \* req.body.selectedLineup: spot -> [name, data]
    unassignedPlayers,      \* req.body.unassignedPlayers: sequence of [name, data]
    handlerLineup,          \* the handler's lineup: spot -> response entry
    availableSpots,         \* spots still to fill, in order
    playerIndex,            \* position of the for-of loop in unassignedPlayers
    status,                 \* HTTP status of the response, 0 before it is sent
    \* ---- the parallel search of the specification: per-worker min-heaps
    workerCount,            \* number of worker threads
    heapSize,               \* N: the bound of every heap and of the result
    candidateScore,         \* accepted candidate -> score; candidates are numbered
                            \* in the lexicographic order of their lineups
    visited,                \* candidates some worker has taken from the stream
    heaps,                  \* worker -> set of candidates in its heap
    merged,                 \* the global top-N after the merge
    cancelled,              \* the shared atomic cancellation flag
    batchLeft,              \* worker -> candidates left in its current batch
    stopped,                \* workers that read the flag set and stopped
    sinceCancel,            \* worker -> candidates it took after the flag was set
    engineOutcome,          \* "Running", then "Ok" or "Cancelled"
    \* ---- the stats adapters: MLB router, ALPB router, custom-player form
    adapter,                \* which of the three is asked
    rawStats,               \* what it is given: s.stat, data.player, the form's season
    season,                 \* the Season records it produced (none or one)
    \* ---- the Rate Deriver of the specification, for one hitter
    hitterCounts,           \* the hitter's counts
    rateResult,             \* what the deriver returned
    \* ---- one request through the specification's components C1..C4
    ratesDerived,           \* hitters whose rates the Rate Deriver (C1) has returned
    tensorStage,            \* BDNRP tensor build (C2): "none", "building", "built"
    compilerStage,          \* constraint compiler (C3): "none", "compiling", "compiled"
    tensor,                 \* T, once built
    computedList,           \* the quadruples the build computed, in order
    scoredCount,            \* candidates the search workers (C4) have scored
    events,                 \* starts and ends of C2 and C3, in order
    \* ---- the batting-spot map of AssignLineup and of BuildModal
    component,              \* whose handleLineupChange is called
    buildLineup,            \* lineup: spot -> composite id, or undefined
    \* ---- BuildController, three steps (buildController.tsx)
    threeStep,              \* step: 0 players, 1 constraints, 2 review
    threeSelected,          \* selectedPlayerSeasons
    threeCaps,              \* maxConsecutiveHandedness
    threeSubmitted,         \* handleSubmit has been called
    \* ---- check_handedness_constraints on its own
    walkHands,              \* the hand batting in each slot
    walkCaps,               \* << max_left, max_right >>
    walkVerdict,            \* "none", "accept", "reject"
    \* ---- the plate-appearance model over one window of hitters
    window,                 \* the hitters that have batted, in order
    distribution,           \* mass of each half-inning state (numerator)
    massDenominator,        \* the denominator of the masses
    runsIncrement,          \* expected runs of the last plate appearance (numerator)
    atBat,                  \* one play of the half-inning: its state
    event,                  \* the event of its last plate appearance
    runsOnPlay,             \* the runs that scored on it
    \* ---- the build page with its players
    pageLeague,             \* the league of the league context
    pageStep,               \* step
    pageSelected,           \* selectedPlayerSeasons
    pageLineup,             \* lineup: batting spot -> compositeId, or undefined
    pagePayload,            \* what handleSubmitMock sends
    pageClock,              \* custom players made so far (Date.now())
    \* ---- the pitcher-handedness step with overlapping calls
    splitHandedness,        \* pitcherHandedness ("NONE" for null)
    splitSelection,         \* selectedPlayerSeasons
    splitCalls,             \* the calls of handleHandednessChange in flight
    splitStarted,           \* the calls started so far
    splitFaulty,            \* a fetch failed or brought no split
    \* ---- the selection kept in localStorage
    storedItem,             \* localStorage item "selectedPlayerSeasons"
    mountPhase,             \* how far the mount of the controller has come
    ctlSelected,            \* selectedPlayerSeasons
    isLoaded,               \* isLoaded
    pendingSelected,        \* the selection set by the first effect, not yet rendered
    beforeReload,           \* the selection of before the last reload
    reloads,                \* the reloads made so far
    pc

searchVars == << val, player_handedness, max_consecutive_left, max_consecutive_right,
                 constrained_positions, unconstrained_players, available_positions,
                 return_top_n, top_list, prev_top_list, enumerated, scored >>

buildVars == << step, selectedPlayerSeasons, maxConsecutiveHandedness, toasted,
                submitted >>

handlerVars == << method, selectedLineup, unassignedPlayers, handlerLineup, availableSpots,
                  playerIndex, status >>

heapVars == << workerCount, heapSize, candidateScore, visited, heaps, merged,
               cancelled, batchLeft, stopped, sinceCancel, engineOutcome >>

statsVars == << adapter, rawStats, season >>

rateVars == << hitterCounts, rateResult >>

pipeVars == << ratesDerived, tensorStage, compilerStage, tensor, computedList,
               scoredCount, events >>

spotVars == << component, buildLineup >>

\* The variables of the parts below that the four parts above leave alone.
threeVars == << threeStep, threeSelected, threeCaps, threeSubmitted >>

\* The variables of the parts below that the four parts above leave alone.
walkVars == << walkHands, walkCaps, walkVerdict >>

inningVars == << window, distribution, massDenominator, runsIncrement, atBat, event,
                 runsOnPlay >>

pageVars == << pageLeague, pageStep, pageSelected, pageLineup, pagePayload, pageClock >>

splitVars == << splitHandedness, splitSelection, splitCalls, splitStarted, splitFaulty >>

reloadVars == << storedItem, mountPhase, ctlSelected, isLoaded, pendingSelected,
                 beforeReload, reloads >>

restVars == << statsVars, rateVars, pipeVars, spotVars, threeVars, walkVars,
               inningVars, pageVars, splitVars, reloadVars >>

vars == << searchVars, buildVars, handlerVars, heapVars, restVars, pc >>

--------------------------------------------------------------------------
(* Bounds of the model *)
MaxFree  == 3      \* at most this many batting positions are left free
MaxTopN  == 3      \* top_n ranges over 1..MaxTopN
MaxCap   == 2      \* handedness caps range over 0..MaxCap
MaxSubmits == 1    \* Submit is pressed at most this many times
MaxUnassigned == 3 \* at most this many unassigned players in a request
MaxWorkers == 2    \* worker threads of the parallel search
MaxHeap  == 2      \* the heaps hold at most this many candidates
MaxCandidates == 3 \* accepted candidates in the stream
MaxScore == 2      \* candidate scores range over 1..MaxScore
BatchSize == 2     \* candidates per batch (about 4,096 in the engine)
MaxCount == 2      \* the stats adapters are given counts in 0..MaxCount
MaxEdited == 3     \* the batting spots 1..MaxEdited are edited
MaxIds == 2        \* with this many player-seasons to choose from
RateDenominator == 4  \* plate appearances of a hitter of the window
MaxSelected == 10  \* the selection grows to at most this many player-seasons
MaxPageSpots == 1  \* the batting spots 1..MaxPageSpots of the page are assigned
MaxSplitCalls == 3  \* calls of handleHandednessChange made on the handedness step
MaxReloads == 2  \* reloads of the build page

(* Program constants *)
NumSlots    == 9   \* range(9), np.full(9, ...), % 9
WalkLength  == 18  \* range(18): twice around the batting order
LastSlot    == 8   \* pos < 8 ... (8 - pos)

Slots   == 0 .. (NumSlots - 1)
Hitters == 0 .. (NumSlots - 1)
Hands   == {"LEFT", "RIGHT", "SWITCH"}

--------------------------------------------------------------------------
(* Helpers on sequences and sets *)

Range(s) == { s[i] : i \in DOMAIN s }

Min2(a, b) == IF a < b THEN a ELSE b
Max2(a, b) == IF a > b THEN a ELSE b

RECURSIVE SetToSeq(_)
\* The elements of a set of integers in increasing order.
SetToSeq(S) ==
    IF S = {} THEN << >>
    ELSE LET m == CHOOSE x \in S : \A y \in S : x <= y
         IN  << m >> \o SetToSeq(S \ {m})

RemoveAt(s, i) == SubSeq(s, 1, i - 1) \o SubSeq(s, i + 1, Len(s))

RECURSIVE ConcatAll(_)
ConcatAll(ss) == IF ss = << >> THEN << >> ELSE Head(ss) \o ConcatAll(Tail(ss))

\* Mutant: only the rotations of seq are produced.
permutations_rotations(s) ==
    [ i \in 1 .. Len(s) |-> SubSeq(s, i, Len(s)) \o SubSeq(s, 1, i - 1) ]

RECURSIVE permutations(_)
\* itertools.permutations(seq): every ordering of seq, in the order of the
\* positions of seq (first element first).
permutations(s) ==
    IF s = << >> THEN << << >> >>
    ELSE ConcatAll([ i \in 1 .. Len(s) |->
            LET rest == permutations(RemoveAt(s, i))
            IN  [ j \in 1 .. Len(rest) |-> << s[i] >> \o rest[j] ] ])

RECURSIVE KSubsets(_, _)
\* The subsets of S with exactly k elements.
KSubsets(S, k) ==
    IF k = 0 THEN { {} }
    ELSE IF Cardinality(S) < k THEN {}
    ELSE LET x == CHOOSE y \in S : TRUE
         IN  { X \cup {x} : X \in KSubsets(S \ {x}, k - 1) } \cup KSubsets(S \ {x}, k)

--------------------------------------------------------------------------
(* load_bdnrp_tensor: T[i,j,k,l] is the csv's value for the four players,  *)
(* zero where the csv has no row (the csv rows are the ordered quadruples  *)
(* of distinct players).                                                   *)

Distinct4(i, j, k, l) == Cardinality({i, j, k, l}) = 4

bdnrp_value(v, i, j, k, l) == v[l] * (1 + v[k]) + v[i] * v[j]

load_bdnrp_tensor(v) ==
    [ q \in Hitters \X Hitters \X Hitters \X Hitters |->
        IF Distinct4(q[1], q[2], q[3], q[4])
        THEN bdnrp_value(v, q[1], q[2], q[3], q[4])
        ELSE 0 ]

(* _score_lineup: sum over pos of T[p1,p2,p3,p4] * weight, in ninths *)
weight(pos) == IF pos < LastSlot THEN NumSlots + (LastSlot - pos) ELSE NumSlots

RECURSIVE ScoreFrom_window_of_nine(_, _, _)
\* Mutant: the window reaches back nine slots, to the slot itself.
ScoreFrom_window_of_nine(order, T, pos) ==
    IF pos = NumSlots THEN 0
    ELSE LET p1 == order[((pos - 9) % NumSlots)]
             p2 == order[((pos - 2) % NumSlots)]
             p3 == order[((pos - 1) % NumSlots)]
             p4 == order[pos]
             base == T[<< p1, p2, p3, p4 >>]
         IN  base * weight(pos) + ScoreFrom_window_of_nine(order, T, pos + 1)

RECURSIVE ScoreFrom(_, _, _)
ScoreFrom(order, T, pos) ==
    IF pos = NumSlots THEN 0
    ELSE LET p1 == order[((pos - 3) % NumSlots)]
             p2 == order[((pos - 2) % NumSlots)]
             p3 == order[((pos - 1) % NumSlots)]
             p4 == order[pos]
             base == T[<< p1, p2, p3, p4 >>]
         IN  base * weight(pos) + ScoreFrom(order, T, pos + 1)

_score_lineup(order, T) == ScoreFrom(order, T, 0)


--------------------------------------------------------------------------
(* check_handedness_constraints: walk range(18) over lineup + lineup,      *)
(* counting the current run of LEFT and of RIGHT hitters; any other        *)
(* handedness resets both counters.                                        *)

RECURSIVE HandednessWalk(_, _, _, _, _, _, _)
\* << max_left_found, max_right_found >> after steps i .. WalkLength - 1.
HandednessWalk(lineup_indices, handedness_of, i, consecutive_left, consecutive_right, max_left_found, max_right_found) ==
    IF i = WalkLength THEN << max_left_found, max_right_found >>
    ELSE LET player_idx == lineup_indices[i % NumSlots]
             handedness == handedness_of[player_idx]
         IN  IF handedness = "LEFT"
             THEN HandednessWalk(lineup_indices, handedness_of, i + 1,
                                 consecutive_left + 1, 0,
                                 Max2(max_left_found, consecutive_left + 1),
                                 max_right_found)
             ELSE IF handedness = "RIGHT"
             THEN HandednessWalk(lineup_indices, handedness_of, i + 1,
                                 0, consecutive_right + 1,
                                 max_left_found,
                                 Max2(max_right_found, consecutive_right + 1))
             ELSE HandednessWalk(lineup_indices, handedness_of, i + 1,
                                 0, 0, max_left_found, max_right_found)

\* Mutant: the walk goes once down the order and never wraps to the top.
check_handedness_single_pass(lineup_indices, handedness_of, max_left, max_right) ==
    IF max_left = 0 /\ max_right = 0 THEN TRUE
    ELSE LET found == HandednessWalk(lineup_indices, handedness_of, NumSlots, 0, 0, 0, 0)
         IN  IF max_left > 0 /\ found[1] > max_left THEN FALSE
             ELSE IF max_right > 0 /\ found[2] > max_right THEN FALSE
             ELSE TRUE

check_handedness_constraints(lineup_indices, handedness_of, max_left, max_right) ==
    IF max_left = 0 /\ max_right = 0 THEN TRUE
    ELSE LET found == HandednessWalk(lineup_indices, handedness_of, 0, 0, 0, 0, 0)
         IN  IF max_left > 0 /\ found[1] > max_left THEN FALSE
             ELSE IF max_right > 0 /\ found[2] > max_right THEN FALSE
             ELSE TRUE

--------------------------------------------------------------------------
(* create_constrained_lineups: one lineup per permutation of the           *)
(* unconstrained players; np.full(9, -1), then the constrained positions,  *)
(* then perm[i] at available_positions[i].                                 *)

create_constrained_lineups(cp, up, ap) ==
    LET unconstrained_perms == permutations(up)
    IN  [ n \in 1 .. Len(unconstrained_perms) |->
            [ pos \in Slots |->
                LET perm == unconstrained_perms[n]
                    at   == { i \in 1 .. Len(perm) : ap[i] = pos }
                IN  IF at # {}
                    THEN perm[CHOOSE i \in at : \A j \in at : j <= i]
                    ELSE IF pos \in DOMAIN cp THEN cp[pos] ELSE -1 ] ]

--------------------------------------------------------------------------
(* optimize_lineup: enumerate, filter by handedness, score every lineup,   *)
(* np.argpartition(-scores, min(n - 1, len - 1))[:n], then                 *)
(* top_idx[np.argsort(-scores[top_idx])].  Neither numpy call orders equal *)
(* scores in a documented way, so every order of equal scores is a         *)
(* possible outcome.                                                       *)

\* Mutant: the partition is not cut to its first n indices.
argpartition_uncut(scores, n) == { DOMAIN scores }

\* np.argpartition(-scores, kth)[:n]: the index sets that may come back.
argpartition(scores, n) ==
    LET idx     == DOMAIN scores
        k       == Min2(n, Cardinality(idx))
        kth     == CHOOSE v \in Range(scores) :
                      /\ Cardinality({ i \in idx : scores[i] > v }) < k
                      /\ Cardinality({ i \in idx : scores[i] >= v }) >= k
        greater == { i \in idx : scores[i] > kth }
        equal   == { i \in idx : scores[i] = kth }
    IN  { greater \cup X : X \in KSubsets(equal, k - Cardinality(greater)) }

RECURSIVE argsort(_, _)
\* top_idx[np.argsort(-scores[top_idx])]: the orders that may come back.
argsort(scores, top_idx) ==
    IF top_idx = {} THEN { << >> }
    ELSE LET best == { i \in top_idx : \A j \in top_idx : scores[i] >= scores[j] }
         IN  UNION { { << i >> \o rest : rest \in argsort(scores, top_idx \ {i}) }
                     : i \in best }

filter_handedness(all_lineups, handedness_of, max_left, max_right) ==
    IF handedness_of # << >> /\ (max_left > 0 \/ max_right > 0)
    THEN SelectSeq(all_lineups,
                   LAMBDA lineup : check_handedness_constraints(
                                       lineup, handedness_of, max_left, max_right))
    ELSE all_lineups

top_list_of(perms, scores, order) ==
    [ r \in 1 .. Len(order) |-> [ lineup |-> perms[order[r]], score |-> scores[order[r]] ] ]

\* The outcomes optimize_lineup may have for top_n = n: the response, the
\* number of lineups it enumerated and the number it scored.  A ValueError
\* (lengths that do not match, or no lineup left by the filter) is error.
optimize_lineup(n) ==
    LET T           == load_bdnrp_tensor(val)
        all_lineups == create_constrained_lineups(constrained_positions,
                            unconstrained_players, available_positions)
        perms       == filter_handedness(all_lineups, player_handedness,
                            max_consecutive_left, max_consecutive_right)
        scores      == [ i \in 1 .. Len(perms) |-> _score_lineup(perms[i], T) ]
    IN  IF Len(unconstrained_players) # Len(available_positions)
        THEN { [ error |-> TRUE, lineups |-> << >>, enumerated |-> 0, scored |-> 0 ] }
        ELSE IF Len(perms) = 0
        THEN { [ error |-> TRUE, lineups |-> << >>,
                 enumerated |-> Len(all_lineups), scored |-> 0 ] }
        ELSE { [ error |-> FALSE, lineups |-> top_list_of(perms, scores, order),
                 enumerated |-> Len(all_lineups), scored |-> Len(scores) ]
               : order \in UNION { argsort(scores, top_idx)
                                   : top_idx \in argpartition(scores, n) } }

--------------------------------------------------------------------------
(* Requests: one roster and constraint set, asked for top_n = 1, 2, ...    *)

\* The hitter a batting position holds before the search moves anyone.
Occupant(s) == (s + 1) % NumSlots

\* The free batting positions are a window of the order: from the top, from
\* the middle, or from the eighth place round to the top.
WindowStarts == {0, 4, 7}

FreeSlotSets ==
    { { (a + i) % NumSlots : i \in 0 .. (m - 1) } : a \in WindowStarts, m \in 0 .. MaxFree }

\* Handedness repeats with period three down the roster and the first hitter
\* bats left (the mirrored rosters are those with the two caps exchanged), or
\* four left-handers are followed by five right-handers.
HandPatterns ==
    { [ h \in Hitters |-> p[h % 3] ] : p \in { q \in [ 0 .. 2 -> Hands ] : q[0] = "LEFT" } }
    \cup { [ h \in Hitters |-> IF h < 4 THEN "LEFT" ELSE "RIGHT" ] }

\* Strengths: nine different hitters, or two neighbouring hitters with the
\* same numbers (their lineups tie).
ValPatterns ==
    { [ h \in Hitters |-> h + 1 ] } \cup
    { [ h \in Hitters |-> IF h = (c + 1) % NumSlots THEN c + 1 ELSE h + 1 ] : c \in {0, 8} }

NoResponse == [ error |-> FALSE, lineups |-> << >> ]
Response(outcome) == [ error |-> outcome.error, lineups |-> outcome.lineups ]

\* No parallel search is running.
HeapIdle ==
    /\ workerCount = 1
    /\ heapSize = 1
    /\ candidateScore = << >>
    /\ visited = {}
    /\ heaps = << >>
    /\ merged = << >>
    /\ cancelled = FALSE
    /\ batchLeft = << >>
    /\ stopped = {}
    /\ sinceCancel = << >>
    /\ engineOutcome = "None"

\* No stats are being adapted.
StatsIdle ==
    /\ adapter = "NONE"
    /\ rawStats = << >>
    /\ season = << >>

\* No hitter's rates are being derived.
RateIdle ==
    /\ hitterCounts = << >>
    /\ rateResult = << >>

\* No request is in the pipeline.
PipeIdle ==
    /\ ratesDerived = {}
    /\ tensorStage = "none"
    /\ compilerStage = "none"
    /\ tensor = << >>
    /\ computedList = << >>
    /\ scoredCount = 0
    /\ events = << >>

\* No batting-spot map is being edited.
SpotIdle ==
    /\ component = "NONE"
    /\ buildLineup = << >>

\* The three-step controller is not on the page.
ThreeIdle ==
    /\ threeStep = 0
    /\ threeSelected = << >>
    /\ threeCaps = << 0, 0 >>
    /\ threeSubmitted = FALSE

\* No lineup is handed to the handedness check on its own.
WalkIdle ==
    /\ walkHands = << >>
    /\ walkCaps = << 0, 0 >>
    /\ walkVerdict = "none"

\* The build page is not open.
NoPayload == [ sent |-> FALSE, selectedLineup |-> << >>, unassignedPlayers |-> << >> ]
PageIdle ==
    /\ pageLeague = "NONE"
    /\ pageStep = 0
    /\ pageSelected = << >>
    /\ pageLineup = << >>
    /\ pagePayload = NoPayload
    /\ pageClock = 0

\* The pitcher-handedness step is not open on its own.
SplitsIdle ==
    /\ splitHandedness = "NONE"
    /\ splitSelection = << >>
    /\ splitCalls = {}
    /\ splitStarted = 0
    /\ splitFaulty = FALSE

\* The item under "selectedPlayerSeasons" when it is absent.
NoItem == [ present |-> FALSE, text |-> << >> ]
NoPending == [ set |-> FALSE, value |-> << >> ]
NoReload == [ kept |-> FALSE, value |-> << >> ]

\* No controller is mounted on its own.
ReloadIdle ==
    /\ storedItem = NoItem
    /\ mountPhase = "none"
    /\ ctlSelected = << >>
    /\ isLoaded = FALSE
    /\ pendingSelected = NoPending
    /\ beforeReload = NoReload
    /\ reloads = 0

\* No window of hitters is at the plate.
BasesEmpty == [ bases |-> {}, outs |-> 0 ]
InningIdle ==
    /\ window = << >>
    /\ distribution = << >>
    /\ massDenominator = 1
    /\ runsIncrement = 0
    /\ atBat = BasesEmpty
    /\ event = "none"
    /\ runsOnPlay = 0

\* None of the parts below is at work.
RestIdle ==
    /\ StatsIdle /\ RateIdle /\ PipeIdle /\ SpotIdle /\ ThreeIdle
    /\ WalkIdle /\ InningIdle /\ PageIdle /\ SplitsIdle /\ ReloadIdle

\* None of them but the named one is at work.
RestIdleBut(part) ==
    /\ IF part = "stats" THEN TRUE ELSE StatsIdle
    /\ IF part = "rate" THEN TRUE ELSE RateIdle
    /\ IF part = "pipe" THEN TRUE ELSE PipeIdle
    /\ IF part = "spot" THEN TRUE ELSE SpotIdle
    /\ IF part = "three" THEN TRUE ELSE ThreeIdle
    /\ IF part = "walk" THEN TRUE ELSE WalkIdle
    /\ IF part = "inning" THEN TRUE ELSE InningIdle
    /\ IF part = "page" THEN TRUE ELSE PageIdle
    /\ IF part = "splits" THEN TRUE ELSE SplitsIdle
    /\ IF part = "reload" THEN TRUE ELSE ReloadIdle

\* No submit-lineup request is in hand.
HandlerIdle ==
    /\ method = "POST"
    /\ selectedLineup = << >>
    /\ unassignedPlayers = << >>
    /\ handlerLineup = << >>
    /\ availableSpots = << >>
    /\ playerIndex = 1
    /\ status = 0

\* The build page is not open.
BuildIdle ==
    /\ step = 0
    /\ selectedPlayerSeasons = << >>
    /\ maxConsecutiveHandedness = << 0, 0 >>
    /\ toasted = FALSE
    /\ submitted = << >>

\* No search request is in hand.
SearchIdle ==
    /\ val = [ h \in Hitters |-> 0 ]
    /\ player_handedness = [ h \in Hitters |-> "SWITCH" ]
    /\ max_consecutive_left = 0
    /\ max_consecutive_right = 0
    /\ constrained_positions = << >>
    /\ unconstrained_players = << >>
    /\ available_positions = << >>
    /\ return_top_n = 1
    /\ top_list = NoResponse
    /\ prev_top_list = NoResponse
    /\ enumerated = 0
    /\ scored = 0

InitSearch ==
    /\ val \in ValPatterns
    /\ player_handedness \in HandPatterns
    /\ max_consecutive_left \in 0 .. MaxCap
    /\ max_consecutive_right \in 0 .. MaxCap
    /\ \E F \in FreeSlotSets :
          /\ constrained_positions = [ s \in Slots \ F |-> Occupant(s) ]
          /\ unconstrained_players = SetToSeq({ Occupant(s) : s \in F })
          /\ available_positions = SetToSeq(F)
    /\ return_top_n = 1
    /\ top_list = NoResponse
    /\ prev_top_list = NoResponse
    /\ enumerated = 0
    /\ scored = 0
    /\ pc = "ready"
    /\ BuildIdle
    /\ HandlerIdle
    /\ HeapIdle
    /\ RestIdle

OptimizeLineup ==
    /\ pc = "ready"
    /\ \E outcome \in optimize_lineup(return_top_n) :
          /\ top_list' = Response(outcome)
          /\ enumerated' = outcome.enumerated
          /\ scored' = outcome.scored
    /\ prev_top_list' = top_list
    /\ return_top_n' = return_top_n + 1
    /\ pc' = IF return_top_n = MaxTopN THEN "done" ELSE "ready"
    /\ UNCHANGED << val, player_handedness, max_consecutive_left,
                    max_consecutive_right, constrained_positions,
                    unconstrained_players, available_positions >>
    /\ UNCHANGED << buildVars, handlerVars, heapVars, restVars >>

--------------------------------------------------------------------------
(* BuildController, four steps (players, constraints, pitcher handedness,  *)
(* review).  selectedPlayerSeasons comes from localStorage when the page   *)
(* loads; maxConsecutiveHandedness is the hook's state, whose setter is    *)
(* handed to AssignLineup: the inputs that call it are commented out in    *)
(* this revision of AssignLineup, so the page itself only ever holds       *)
(* [0, 0]; the other pairs are the arguments the memo is checked against.  *)

Steps    == 0 .. 3
LastStep == 3
NoHand   == "NONE"          \* last === null

\* The indices the loop of dfs has to try: an index whose hand stood at an
\* earlier index makes the same recursive call up to the order of rest, and
\* dfs tries every index of rest, so it returns what the earlier one did.
TryIndices(remaining) ==
    { i \in 1 .. Len(remaining) : \A k \in 1 .. (i - 1) : remaining[k] # remaining[i] }

RECURSIVE dfs_unguarded(_, _, _, _, _)
\* Mutant: the limits are compared without the "limit > 0" guard.
dfs_unguarded(mch, remaining, last, leftStreak, rightStreak) ==
    IF Len(remaining) = 0 THEN TRUE
    ELSE \E i \in TryIndices(remaining) :
            LET hand == remaining[i]
                rest == RemoveAt(remaining, i)
            IN  IF hand = "LEFT"
                THEN /\ ~(last = "LEFT" /\ leftStreak + 1 > mch[1])
                     /\ dfs_unguarded(mch, rest, "LEFT",
                            IF last = "LEFT" THEN leftStreak + 1 ELSE 1, 0)
                ELSE IF hand = "RIGHT"
                THEN /\ ~(last = "RIGHT" /\ rightStreak + 1 > mch[2])
                     /\ dfs_unguarded(mch, rest, "RIGHT", 0,
                            IF last = "RIGHT" THEN rightStreak + 1 ELSE 1)
                ELSE FALSE

RECURSIVE dfs(_, _, _, _, _)
\* dfs(remaining, last, leftStreak, rightStreak) under the caps mch: some
\* index i of remaining is not skipped and the rest can be placed after it.
dfs(mch, remaining, last, leftStreak, rightStreak) ==
    IF Len(remaining) = 0 THEN TRUE
    ELSE \E i \in TryIndices(remaining) :
            LET hand == remaining[i]
                rest == RemoveAt(remaining, i)
            IN  IF hand = "LEFT"
                THEN /\ ~(last = "LEFT" /\ mch[1] > 0 /\ leftStreak + 1 > mch[1])
                     /\ dfs(mch, rest, "LEFT",
                            IF last = "LEFT" THEN leftStreak + 1 ELSE 1, 0)
                ELSE IF hand = "RIGHT"
                THEN /\ ~(last = "RIGHT" /\ mch[2] > 0 /\ rightStreak + 1 > mch[2])
                     /\ dfs(mch, rest, "RIGHT", 0,
                            IF last = "RIGHT" THEN rightStreak + 1 ELSE 1)
                ELSE FALSE

\* The LEFT and RIGHT batting hands of the selected players, in order.
hands(sps) ==
    LET all == [ i \in 1 .. Len(sps) |-> sps[i].battingHand ]
    IN  SelectSeq(all, LAMBDA h : h = "LEFT" \/ h = "RIGHT")

isConstraintImpossible(st, sps, mch) ==
    IF st # 1 THEN FALSE
    ELSE IF Len(hands(sps)) # NumSlots THEN FALSE
    ELSE ~dfs(mch, hands(sps), NoHand, 0, 0)

\* The Next button's isDisabled.
NextDisabled(st, sps, mch) ==
    \/ Len(sps) # NumSlots
    \/ \E i \in 1 .. Len(sps) : ~sps[i].season
    \/ (st = 1 /\ isConstraintImpossible(st, sps, mch))

\* The effect on [step, isConstraintImpossible]: it runs when one of the two
\* has changed, and toasts when the new step is 1 and the memo is true.
ToastEffect(newStep) ==
    LET was == isConstraintImpossible(step, selectedPlayerSeasons, maxConsecutiveHandedness)
        now == isConstraintImpossible(newStep, selectedPlayerSeasons, maxConsecutiveHandedness)
    IN  IF (newStep # step \/ now # was) /\ newStep = 1 /\ now
        THEN TRUE ELSE toasted

\* Rosters in localStorage: nLeft LEFT, nRight RIGHT, the rest SWITCH hitters.
Roster(n, nLeft, nRight, seasons) ==
    [ i \in 1 .. n |->
        [ battingHand |-> IF i <= nLeft THEN "LEFT"
                          ELSE IF i <= nLeft + nRight THEN "RIGHT" ELSE "SWITCH",
          season |-> seasons \/ i < n ] ]

Rosters ==
    { Roster(NumSlots, l, r, TRUE) : l \in 0 .. NumSlots, r \in 0 .. NumSlots } \cup
    { Roster(NumSlots, NumSlots, 0, FALSE), Roster(LastSlot, LastSlot, 0, TRUE) }

InitBuild ==
    /\ step = 0
    /\ selectedPlayerSeasons \in Rosters
    /\ maxConsecutiveHandedness \in (0 .. MaxCap) \X (0 .. MaxCap)
    /\ toasted = FALSE
    /\ submitted = << >>
    /\ pc = "build"
    /\ SearchIdle
    /\ HandlerIdle
    /\ HeapIdle
    /\ RestIdle

\* The Next button (shown while step < 3) and its onPress, nextStep.
nextStep ==
    /\ pc = "build"
    /\ step < LastStep
    /\ ~NextDisabled(step, selectedPlayerSeasons, maxConsecutiveHandedness)
    /\ Len(selectedPlayerSeasons) = NumSlots
    /\ step' = step + 1
    /\ toasted' = ToastEffect(step + 1)
    /\ UNCHANGED << selectedPlayerSeasons, maxConsecutiveHandedness, submitted, pc >>
    /\ UNCHANGED << searchVars, handlerVars, heapVars, restVars >>

\* The Back button: disabled at step 0.
prevStep ==
    /\ pc = "build"
    /\ step # 0
    /\ step' = step - 1
    /\ toasted' = ToastEffect(step - 1)
    /\ UNCHANGED << selectedPlayerSeasons, maxConsecutiveHandedness, submitted, pc >>
    /\ UNCHANGED << searchVars, handlerVars, heapVars, restVars >>

\* A breadcrumb's onClick: setStep(index) when nine players are selected.
BreadcrumbClick(index) ==
    /\ pc = "build"
    /\ Len(selectedPlayerSeasons) = NumSlots
    /\ step' = index
    /\ toasted' = ToastEffect(index)
    /\ UNCHANGED << selectedPlayerSeasons, maxConsecutiveHandedness, submitted, pc >>
    /\ UNCHANGED << searchVars, handlerVars, heapVars, restVars >>

\* The Submit button (shown at step 3): handleSubmit(lineup, unassigned,
\* selectedPlayerSeasons, maxConsecutiveHandedness).
Submit ==
    /\ pc = "build"
    /\ step = LastStep
    /\ Len(submitted) < MaxSubmits
    /\ submitted' = Append(submitted, maxConsecutiveHandedness)
    /\ UNCHANGED << step, selectedPlayerSeasons, maxConsecutiveHandedness, toasted, pc >>
    /\ UNCHANGED << searchVars, handlerVars, heapVars, restVars >>
--------------------------------------------------------------------------
(* pages/api/submit-lineup.ts.  Strings are sequences of characters.       *)

Spots     == 1 .. NumSlots
Unknown   == << "U", "n", "k", "n", "o", "w", "n" >>

RECURSIVE trim(_)
\* String.prototype.trim
trim(str) ==
    IF str = << >> THEN << >>
    ELSE IF Head(str) = " " THEN trim(Tail(str))
    ELSE IF str[Len(str)] = " " THEN trim(SubSeq(str, 1, Len(str) - 1))
    ELSE str

RECURSIVE split(_)
\* str.split(" "): the pieces between single spaces, empty pieces included.
split(str) ==
    IF \A i \in 1 .. Len(str) : str[i] # " " THEN << str >>
    ELSE LET at == CHOOSE i \in 1 .. Len(str) :
                      str[i] = " " /\ \A j \in 1 .. (i - 1) : str[j] # " "
         IN  << SubSeq(str, 1, at - 1) >> \o split(SubSeq(str, at + 1, Len(str)))

RECURSIVE join(_)
\* parts.join(" ")
join(parts) ==
    IF parts = << >> THEN << >>
    ELSE IF Len(parts) = 1 THEN parts[1]
    ELSE parts[1] \o << " " >> \o join(Tail(parts))

parseName(fullName) ==
    LET parts     == split(trim(fullName))
        firstName == parts[1]
        lastName  == join(Tail(parts))
    IN  [ firstName |-> IF firstName = << >> THEN Unknown ELSE firstName,
          lastName  |-> lastName ]

toLowerCase(str) ==
    [ i \in 1 .. Len(str) |-> IF str[i] = "B" THEN "b"
                              ELSE IF str[i] = "U" THEN "u" ELSE str[i] ]

RECURSIVE dashes(_)
\* .replace(/\s+/g, "-"): every run of spaces becomes one dash.
dashes(str) ==
    IF str = << >> THEN << >>
    ELSE IF Head(str) # " " THEN << Head(str) >> \o dashes(Tail(str))
    ELSE IF Len(str) > 1 /\ str[2] = " " THEN dashes(Tail(str))
    ELSE << "-" >> \o dashes(Tail(str))

makeId(firstName, lastName) ==
    dashes(toLowerCase(firstName \o << "-" >> \o lastName))

\* The entry the handler stores for a player of the request.
ResponseEntry(player, selected) ==
    LET name == parseName(player.name)
    IN  [ id |-> makeId(name.firstName, name.lastName),
          firstName |-> name.firstName,
          lastName |-> name.lastName,
          season |-> player.data,
          isSelected |-> selected,
          isUnassigned |-> ~selected ]

\* Mutant: a spot counts as filled when it has an entry, named or not.
filledSpots_with_unnamed(selected) ==
    { spot \in Spots : spot \in DOMAIN selected }

\* Step 1's filledSpots: the spots whose entry exists and has a name.
filledSpots(selected) ==
    { spot \in Spots : spot \in DOMAIN selected /\ selected[spot].name # << >> }

\* Mutant: the filled spots are not filtered out.
availableSpots_unfiltered(filled) == SetToSeq(Spots)

\* Array.from({length: 9}, (_, i) => i + 1).filter((s) => !filledSpots.has(s))
availableSpotsOf(filled) == SetToSeq(Spots \ filled)

\* Requests: names with blanks, capitals, nothing but a blank, or empty.
NameOf(k) ==
    IF k % 4 = 0 THEN << "a" >>
    ELSE IF k % 4 = 1 THEN << "a", " ", "B" >>
    ELSE IF k % 4 = 2 THEN << " ", "B", " ", " ", "a" >>
    ELSE << " " >>
DataOf(k) == IF k % 2 = 0 THEN "stats" ELSE "null"

\* The spots in F carry no name: an even spot has no entry, an odd one an
\* entry with the empty name.
SelectedLineups ==
    { [ spot \in { t \in Spots : (t - 1) \notin F \/ t % 2 = 1 } |->
          [ name |-> IF (spot - 1) \in F THEN << >> ELSE NameOf(spot),
            data |-> DataOf(spot) ] ]
      : F \in FreeSlotSets }

RECURSIVE SeqsUpTo(_, _)
SeqsUpTo(S, n) ==
    IF n = 0 THEN { << >> }
    ELSE LET shorter == SeqsUpTo(S, n - 1)
         IN  shorter \cup { Append(q, x) : q \in { r \in shorter : Len(r) = n - 1 }, x \in S }

UnassignedLists ==
    SeqsUpTo({ [ name |-> << "a" >>, data |-> "stats" ],
               [ name |-> << "B", " ", "a" >>, data |-> "null" ],
               [ name |-> << >>, data |-> "null" ] }, MaxUnassigned)

InitHandler ==
    /\ method \in { "POST", "GET" }
    /\ selectedLineup \in SelectedLineups
    /\ unassignedPlayers \in UnassignedLists
    /\ handlerLineup = << >>
    /\ availableSpots = << >>
    /\ playerIndex = 1
    /\ status = 0
    /\ pc = "request"
    /\ SearchIdle
    /\ BuildIdle
    /\ HeapIdle
    /\ RestIdle

\* req.method !== "POST": 405.
MethodNotAllowed ==
    /\ pc = "request"
    /\ method # "POST"
    /\ status' = 405
    /\ pc' = "responded"
    /\ UNCHANGED << method, selectedLineup, unassignedPlayers, handlerLineup, availableSpots,
                    playerIndex >>
    /\ UNCHANGED << searchVars, buildVars, heapVars, restVars >>

\* Step 1 (the loop over spots 1..9) and the availableSpots that follow it.
TrackFilledSpots ==
    /\ pc = "request"
    /\ method = "POST"
    /\ handlerLineup' = [ spot \in filledSpots(selectedLineup) |->
                     ResponseEntry(selectedLineup[spot], TRUE) ]
    /\ availableSpots' = availableSpotsOf(filledSpots(selectedLineup))
    /\ playerIndex' = 1
    /\ pc' = "filling"
    /\ UNCHANGED << method, selectedLineup, unassignedPlayers, status >>
    /\ UNCHANGED << searchVars, buildVars, heapVars, restVars >>

\* The loop of step 2 stops: the list is used up, or the player has no name,
\* or no spot is left.
LoopEnds ==
    IF playerIndex > Len(unassignedPlayers) THEN TRUE
    ELSE unassignedPlayers[playerIndex].name = << >> \/ Len(availableSpots) = 0

\* One turn of the loop of step 2: a random available spot gets the player.
PlaceUnassigned ==
    /\ pc = "filling"
    /\ ~LoopEnds
    /\ \E randomSpot \in Range(availableSpots) :
          /\ handlerLineup' = [ spot \in DOMAIN handlerLineup \cup { randomSpot } |->
                           IF spot = randomSpot
                           THEN ResponseEntry(unassignedPlayers[playerIndex], FALSE)
                           ELSE handlerLineup[spot] ]
          /\ availableSpots' = SelectSeq(availableSpots, LAMBDA t : t # randomSpot)
    /\ playerIndex' = playerIndex + 1
    /\ UNCHANGED << method, selectedLineup, unassignedPlayers, status, pc >>
    /\ UNCHANGED << searchVars, buildVars, heapVars, restVars >>

\* res.status(200).json({ lineup, ... })
Respond ==
    /\ pc = "filling"
    /\ LoopEnds
    /\ status' = 200
    /\ pc' = "responded"
    /\ UNCHANGED << method, selectedLineup, unassignedPlayers, handlerLineup, availableSpots,
                    playerIndex >>
    /\ UNCHANGED << searchVars, buildVars, heapVars, restVars >>

--------------------------------------------------------------------------
(* The specification's search engine: the candidate stream is partitioned  *)
(* across worker threads in an unspecified order; every worker keeps a     *)
(* min-heap of at most N candidates keyed by score (push when the heap is  *)
(* not full or score > heap.min, pop min when full); at the end the heaps  *)
(* are merged into the global top N, score descending, equal scores in     *)
(* lexicographic order of the lineups.  Workers take the stream in batches *)
(* and read the shared cancellation flag between batches; a worker that    *)
(* reads it set stops with the error Cancelled, and the engine returns the *)
(* first error its workers met, with no lineups.                           *)

Workers    == 1 .. workerCount

\* The candidates of heap h with the least score: the heap is keyed by score
\* alone, so any of them may be the one at its root.
HeapMin(h) == { c \in h : \A d \in h : candidateScore[c] <= candidateScore[d] }

\* Mutant: a full heap takes no further candidate.
HeapPush_never_replaces(h, c) ==
    IF Cardinality(h) < heapSize THEN { h \cup { c } } ELSE { h }

\* The heaps that may result from offering candidate c to heap h.
HeapPush(h, c) ==
    IF Cardinality(h) < heapSize THEN { h \cup { c } }
    ELSE IF \E m \in HeapMin(h) : candidateScore[c] > candidateScore[m]
    THEN { (h \ { m }) \cup { c } : m \in HeapMin(h) }
    ELSE { h }

\* Score descending, equal scores by the lineups' lexicographic order.
Ranked(c, d) ==
    \/ candidateScore[c] > candidateScore[d]
    \/ candidateScore[c] = candidateScore[d] /\ c < d

\* The first n candidates of S in the order Ranked.
TopOf(S, n) ==
    [ r \in 1 .. Min2(n, Cardinality(S)) |->
        CHOOSE c \in S : Cardinality({ d \in S : Ranked(d, c) }) = r - 1 ]

InitHeaps ==
    /\ workerCount \in 1 .. MaxWorkers
    /\ heapSize \in 1 .. MaxHeap
    /\ candidateScore \in UNION { [ 1 .. n -> 1 .. MaxScore ] : n \in 1 .. MaxCandidates }
    /\ visited = {}
    /\ heaps = [ w \in 1 .. workerCount |-> {} ]
    /\ merged = << >>
    /\ cancelled = FALSE
    /\ batchLeft = [ w \in 1 .. workerCount |-> 0 ]
    /\ stopped = {}
    /\ sinceCancel = [ w \in 1 .. workerCount |-> 0 ]
    /\ engineOutcome = "Running"
    /\ pc = "visiting"
    /\ SearchIdle
    /\ BuildIdle
    /\ HandlerIdle
    /\ RestIdle

\* The deadline passes or the caller cancels: the flag is set.
Cancel ==
    /\ pc = "visiting"
    /\ ~cancelled
    /\ cancelled' = TRUE
    /\ UNCHANGED << workerCount, heapSize, candidateScore, visited, heaps, merged,
                    batchLeft, stopped, sinceCancel, engineOutcome, pc >>
    /\ UNCHANGED << searchVars, buildVars, handlerVars, restVars >>

\* Worker w, between two batches, reads the flag: it stops when the flag is
\* set and starts its next batch when it is not.
CheckFlag(w) ==
    /\ pc = "visiting"
    /\ w \notin stopped
    /\ batchLeft[w] = 0
    /\ IF cancelled
       THEN /\ stopped' = stopped \cup { w }
            /\ UNCHANGED batchLeft
       ELSE /\ batchLeft' = [ batchLeft EXCEPT ![w] = BatchSize ]
            /\ UNCHANGED stopped
    /\ UNCHANGED << workerCount, heapSize, candidateScore, visited, heaps, merged,
                    cancelled, sinceCancel, engineOutcome, pc >>
    /\ UNCHANGED << searchVars, buildVars, handlerVars, restVars >>

CheckFlagNext == \E w \in Workers : CheckFlag(w)

\* Worker w takes candidate c of its batch from the stream and offers it to
\* its heap.
Visit(w, c) ==
    /\ pc = "visiting"
    /\ batchLeft[w] > 0
    /\ c \notin visited
    /\ visited' = visited \cup { c }
    /\ \E h \in HeapPush(heaps[w], c) : heaps' = [ heaps EXCEPT ![w] = h ]
    /\ batchLeft' = [ batchLeft EXCEPT ![w] = @ - 1 ]
    /\ sinceCancel' = IF cancelled THEN [ sinceCancel EXCEPT ![w] = @ + 1 ]
                      ELSE sinceCancel
    /\ UNCHANGED << workerCount, heapSize, candidateScore, merged, cancelled,
                    stopped, engineOutcome, pc >>
    /\ UNCHANGED << searchVars, buildVars, handlerVars, restVars >>

\* Any worker takes any candidate not yet taken.
VisitNext == \E w \in Workers, c \in DOMAIN candidateScore : Visit(w, c)

\* Mutant: the workers' errors are swallowed.
OutcomeOf_swallows(errors) == "Ok"

\* The engine's outcome from the set of workers that reported Cancelled.
OutcomeOf(errors) == IF errors # {} THEN "Cancelled" ELSE "Ok"

\* Every worker has stopped or the stream is used up: the engine returns
\* the first error of its workers, or merges their heaps into the global
\* top N.
Merge ==
    /\ pc = "visiting"
    /\ \A w \in Workers : w \in stopped \/ visited = DOMAIN candidateScore
    /\ engineOutcome' = OutcomeOf(stopped)
    /\ merged' = IF engineOutcome' = "Cancelled" THEN << >>
                 ELSE TopOf(UNION { heaps[w] : w \in Workers }, heapSize)
    /\ pc' = "merged"
    /\ UNCHANGED << workerCount, heapSize, candidateScore, visited, heaps,
                    cancelled, batchLeft, stopped, sinceCancel >>
    /\ UNCHANGED << searchVars, buildVars, handlerVars, restVars >>

--------------------------------------------------------------------------
(* The stats adapters: mlbRouter.getPlayerStats, alpbRouter.getPlayerStats *)
(* and CustomPlayerModal.handleSave each build a Season from what they are *)
(* given.  JavaScript numbers are integers here, with undefined and NaN as *)
(* two values of their own; the ALPB feed's fields are strings (sequences  *)
(* of characters), or undefined.                                           *)

earlierVars == << searchVars, buildVars, handlerVars, heapVars >>
EarlierIdle == SearchIdle /\ BuildIdle /\ HandlerIdle /\ HeapIdle

\* The named part leaves every other part's variables alone.
OthersUnchanged(part) ==
    /\ UNCHANGED earlierVars
    /\ IF part = "stats" THEN TRUE ELSE UNCHANGED statsVars
    /\ IF part = "rate" THEN TRUE ELSE UNCHANGED rateVars
    /\ IF part = "pipe" THEN TRUE ELSE UNCHANGED pipeVars
    /\ IF part = "spot" THEN TRUE ELSE UNCHANGED spotVars
    /\ IF part = "three" THEN TRUE ELSE UNCHANGED threeVars
    /\ IF part = "walk" THEN TRUE ELSE UNCHANGED walkVars
    /\ IF part = "inning" THEN TRUE ELSE UNCHANGED inningVars
    /\ IF part = "page" THEN TRUE ELSE UNCHANGED pageVars
    /\ IF part = "splits" THEN TRUE ELSE UNCHANGED splitVars
    /\ IF part = "reload" THEN TRUE ELSE UNCHANGED reloadVars

undefined == -1001
NaN       == -1000
undefinedText == << "undefined" >>

IsNumber(x) == x # undefined /\ x # NaN

\* a + b and a - b: NaN when an operand is undefined or NaN.
Plus(a, b)  == IF IsNumber(a) /\ IsNumber(b) THEN a + b ELSE NaN
Minus(a, b) == IF IsNumber(a) /\ IsNumber(b) THEN a - b ELSE NaN

\* x ?? d on numbers and on strings.
Nullish(x, d)     == IF x = undefined THEN d ELSE x
NullishText(x, d) == IF x = undefinedText THEN d ELSE x

\* Truthiness of a number and of a string.
Truthy(x)     == IsNumber(x) /\ x # 0
TruthyText(x) == x # undefinedText /\ x # << >>

Digits == << "0", "1", "2", "3", "4", "5", "6", "7", "8", "9" >>
IsDigit(c) == \E d \in DOMAIN Digits : Digits[d] = c
DigitValue(c) == (CHOOSE d \in DOMAIN Digits : Digits[d] = c) - 1

RECURSIVE parseIntFrom(_, _, _)
parseIntFrom(str, acc, any) ==
    IF str = << >> \/ ~IsDigit(Head(str))
    THEN IF any THEN acc ELSE NaN
    ELSE parseIntFrom(Tail(str), acc * 10 + DigitValue(Head(str)), TRUE)

\* parseInt(str): the number the leading digits spell, NaN when there are none.
parseInt(str) == parseIntFrom(str, 0, FALSE)

RECURSIVE ToText(_)
\* The decimal text of a count, as the feed sends it.
ToText(n) ==
    IF n < 10 THEN << Digits[n + 1] >>
    ELSE ToText(n \div 10) \o << Digits[(n % 10) + 1] >>

\* mlb.ts: splits.filter(s => s.stat?.plateAppearances).map(s => ({ ... })).
SeasonMLB(stat) ==
    IF ~Truthy(stat.plateAppearances) THEN << >>
    ELSE << [ plateAppearances |-> stat.plateAppearances,
              hits     |-> stat.hits,
              singles  |-> Minus(stat.hits,
                                 Plus(Plus(stat.doubles, stat.triples), stat.homeRuns)),
              doubles  |-> stat.doubles,
              triples  |-> stat.triples,
              homeruns |-> stat.homeRuns ] >>

\* alpb router: p.hits && p.bib && p.trib && p.hr ? hits - (bib + trib + hr) : 0.
singlesALPB(p) ==
    IF TruthyText(p.hits) /\ TruthyText(p.bib) /\ TruthyText(p.trib) /\ TruthyText(p.hr)
    THEN Minus(parseInt(p.hits),
               Plus(Plus(parseInt(NullishText(p.bib, << "0" >>)),
                         parseInt(NullishText(p.trib, << "0" >>))),
                    parseInt(NullishText(p.hr, << "0" >>))))
    ELSE 0

SeasonALPB(p) ==
    << [ plateAppearances |-> parseInt(NullishText(p.ab, << "0" >>)),
         hits     |-> parseInt(NullishText(p.hits, << "0" >>)),
         singles  |-> singlesALPB(p),
         doubles  |-> parseInt(NullishText(p.bib, << "0" >>)),
         triples  |-> parseInt(NullishText(p.trib, << "0" >>)),
         homeruns |-> parseInt(NullishText(p.hr, << "0" >>)) ] >>

\* CustomPlayerModal.handleSave: hits is the sum of the four kinds of hit.
SeasonCustom(form) ==
    << [ plateAppearances |-> Nullish(form.plateAppearances, 0),
         hits     |-> Plus(Plus(Plus(Nullish(form.singles, 0), Nullish(form.doubles, 0)),
                                Nullish(form.triples, 0)), Nullish(form.homeruns, 0)),
         singles  |-> Nullish(form.singles, 0),
         doubles  |-> Nullish(form.doubles, 0),
         triples  |-> Nullish(form.triples, 0),
         homeruns |-> Nullish(form.homeruns, 0) ] >>

\* What the adapters may be given: counts up to MaxCount, or nothing.
Counts     == 0 .. MaxCount
FormValues == Counts \cup { undefined }
FeedTexts  == { ToText(n) : n \in Counts } \cup { << >>, undefinedText }

InitStats ==
    /\ \/ /\ adapter = "MLB"
          /\ rawStats \in [ plateAppearances : FormValues, hits : FormValues,
                            doubles : FormValues, triples : FormValues,
                            homeRuns : FormValues ]
       \/ /\ adapter = "ALPB"
          /\ rawStats \in [ ab : { << "9" >> }, hits : FeedTexts, bib : FeedTexts,
                            trib : FeedTexts, hr : FeedTexts ]
       \/ /\ adapter = "CUSTOM"
          /\ rawStats \in [ plateAppearances : { undefined, 9 }, singles : FormValues,
                            doubles : FormValues, triples : FormValues,
                            homeruns : FormValues ]
    /\ season = << >>
    /\ pc = "stats"
    /\ EarlierIdle
    /\ RestIdleBut("stats")

getPlayerStatsMLB ==
    /\ pc = "stats"
    /\ adapter = "MLB"
    /\ season' = SeasonMLB(rawStats)
    /\ pc' = "season"
    /\ UNCHANGED << adapter, rawStats >>
    /\ OthersUnchanged("stats")

getPlayerStatsALPB ==
    /\ pc = "stats"
    /\ adapter = "ALPB"
    /\ season' = SeasonALPB(rawStats)
    /\ pc' = "season"
    /\ UNCHANGED << adapter, rawStats >>
    /\ OthersUnchanged("stats")

handleSave ==
    /\ pc = "stats"
    /\ adapter = "CUSTOM"
    /\ season' = SeasonCustom(rawStats)
    /\ pc' = "season"
    /\ UNCHANGED << adapter, rawStats >>
    /\ OthersUnchanged("stats")

--------------------------------------------------------------------------

(* The specification's Rate Deriver: from a hitter's counts, seven per-PA  *)
(* probabilities in the order (1B, 2B, 3B, HR, BB, HBP, IBB).  A rate is   *)
(* the fraction count / PA: the result holds the seven numerators and the  *)
(* denominator.  The tolerance 1e-6 is 1 / ToleranceInverse.               *)

ToleranceInverse == 1000000
LargePA == ToleranceInverse

RECURSIVE SumSeq(_)
SumSeq(seq) == IF seq = << >> THEN 0 ELSE Head(seq) + SumSeq(Tail(seq))

\* Singles are recomputed as H - 2B - 3B - HR when the provided count is
\* absent or inconsistent: whichever, the count is H - 2B - 3B - HR.
SinglesOf(c) ==
    IF c.singles # undefined /\ c.singles = c.hits - c.doubles - c.triples - c.homeruns
    THEN c.singles
    ELSE c.hits - c.doubles - c.triples - c.homeruns

\* The seven event counts, in the order of the rates.
EventCounts(c) ==
    << SinglesOf(c), c.doubles, c.triples, c.homeruns, c.walks, c.hitByPitch,
       c.intentionalWalks >>

AnyNegative(c) ==
    \/ c.hits < 0
    \/ c.singles # undefined /\ c.singles < 0
    \/ \E e \in 1 .. 7 : EventCounts(c)[e] < 0

\* Sigma > 1 + 1e-6, for Sigma = SumSeq(EventCounts(c)) / PA and PA > 0: the
\* events exceed PA by more than PA / ToleranceInverse.
ExceedsTolerance(c) ==
    SumSeq(EventCounts(c)) - c.plateAppearances > c.plateAppearances \div ToleranceInverse

\* Mutant: the sum of the rates is not checked.
RateDeriver_unchecked_sum(c) ==
    IF c.plateAppearances <= 0 \/ AnyNegative(c)
    THEN [ kind |-> "InvalidStats", numerators |-> << >>, denominator |-> 1 ]
    ELSE [ kind |-> "Rates", numerators |-> EventCounts(c),
           denominator |-> c.plateAppearances ]

RateDeriver(c) ==
    IF c.plateAppearances <= 0 \/ AnyNegative(c)
    THEN [ kind |-> "InvalidStats", numerators |-> << >>, denominator |-> 1 ]
    ELSE IF ExceedsTolerance(c)
    THEN [ kind |-> "RateOverflow", numerators |-> << >>, denominator |-> 1 ]
    ELSE [ kind |-> "Rates", numerators |-> EventCounts(c),
           denominator |-> c.plateAppearances ]

\* The counts a hitter may come with.
HitterCounts ==
    [ plateAppearances : { -1, 0 } \cup (1 .. MaxCount) \cup { LargePA },
      hits : Counts,
      singles : { undefined, -1, 1 },
      doubles : { 0, 1 },
      triples : { 0 },
      homeruns : { 0, 1 },
      walks : { -1 } \cup Counts \cup { LargePA, LargePA + 1 },
      hitByPitch : { 0, 1 },
      intentionalWalks : { 0 } ]

InitRate ==
    /\ hitterCounts \in HitterCounts
    /\ rateResult = << >>
    /\ pc = "counts"
    /\ EarlierIdle
    /\ RestIdleBut("rate")

DeriveRates ==
    /\ pc = "counts"
    /\ rateResult' = RateDeriver(hitterCounts)
    /\ pc' = "rates"
    /\ UNCHANGED hitterCounts
    /\ OthersUnchanged("rate")

--------------------------------------------------------------------------

(* One request through the specification's components: the Rate Deriver   *)
(* (C1) for each of the nine hitters, the BDNRP tensor build (C2), the     *)
(* constraint compiler (C3) and the search workers (C4).  C1 completes     *)
(* before C2, C2 completes before C4 starts, C3 may run in parallel with   *)
(* C2.  The tensor is built by enumerating the quadruples of pairwise      *)
(* distinct indices; every other entry is 0.                               *)

Quadruples == Hitters \X Hitters \X Hitters \X Hitters

\* The nested loops over i, j, k, l in 0..8, as one list.
AllQuadruples ==
    [ n \in 1 .. (NumSlots * NumSlots * NumSlots * NumSlots) |->
        << (n - 1) \div (NumSlots * NumSlots * NumSlots),
           ((n - 1) \div (NumSlots * NumSlots)) % NumSlots,
           ((n - 1) \div NumSlots) % NumSlots,
           (n - 1) % NumSlots >> ]

\* Mutant: only i, j, k are compared.
IsComputed_first_three(q) == Cardinality({ q[1], q[2], q[3] }) = 3

\* The build computes the quadruples whose four indices are pairwise distinct.
IsComputed(q) == Distinct4(q[1], q[2], q[3], q[4])

EnumeratedQuadruples == SelectSeq(AllQuadruples, IsComputed)

\* The tensor after the build: the computed entries, 0 elsewhere.  The value
\* of an entry stands for the Markov model's expected runs.
BuildTensor(v) ==
    LET done == Range(EnumeratedQuadruples)
    IN  [ q \in Quadruples |->
            IF q \in done THEN bdnrp_value(v, q[1], q[2], q[3], q[4]) ELSE 0 ]

\* The strengths the Rate Deriver's rates give the hitters.
HitterStrength == [ h \in Hitters |-> h + 1 ]

\* Mutant: the tensor build starts when some hitter's rates are there.
RatesComplete_some(done) == done # {}

\* C1 has completed: all nine hitters have their rates.
RatesComplete(done) == done = Hitters

InitPipe ==
    /\ ratesDerived = {}
    /\ tensorStage = "none"
    /\ compilerStage = "none"
    /\ tensor = << >>
    /\ computedList = << >>
    /\ scoredCount = 0
    /\ events = << >>
    /\ pc = "pipeline"
    /\ EarlierIdle
    /\ RestIdleBut("pipe")

\* C1 returns the rates of hitter h.
DeriveHitter(h) ==
    /\ pc = "pipeline"
    /\ h \notin ratesDerived
    /\ ratesDerived' = ratesDerived \cup { h }
    /\ UNCHANGED << tensorStage, compilerStage, tensor, computedList, scoredCount,
                    events, pc >>
    /\ OthersUnchanged("pipe")

DeriveHitterNext == \E h \in Hitters : DeriveHitter(h)

\* C2 starts once C1 has completed.
StartTensorBuild ==
    /\ pc = "pipeline"
    /\ tensorStage = "none"
    /\ RatesComplete(ratesDerived)
    /\ tensorStage' = "building"
    /\ events' = Append(events, "C2 starts")
    /\ UNCHANGED << ratesDerived, compilerStage, tensor, computedList, scoredCount, pc >>
    /\ OthersUnchanged("pipe")

\* C2 completes: the tensor is there, read-only from now on.
FinishTensorBuild ==
    /\ pc = "pipeline"
    /\ tensorStage = "building"
    /\ tensorStage' = "built"
    /\ tensor' = BuildTensor(HitterStrength)
    /\ computedList' = EnumeratedQuadruples
    /\ events' = Append(events, "C2 ends")
    /\ UNCHANGED << ratesDerived, compilerStage, scoredCount, pc >>
    /\ OthersUnchanged("pipe")

\* C3 works on the fixed positions, the caps and the handedness vector: it
\* does not wait for C1 or C2.
StartCompile ==
    /\ pc = "pipeline"
    /\ compilerStage = "none"
    /\ compilerStage' = "compiling"
    /\ events' = Append(events, "C3 starts")
    /\ UNCHANGED << ratesDerived, tensorStage, tensor, computedList, scoredCount, pc >>
    /\ OthersUnchanged("pipe")

FinishCompile ==
    /\ pc = "pipeline"
    /\ compilerStage = "compiling"
    /\ compilerStage' = "compiled"
    /\ events' = Append(events, "C3 ends")
    /\ UNCHANGED << ratesDerived, tensorStage, tensor, computedList, scoredCount, pc >>
    /\ OthersUnchanged("pipe")

\* C4: a worker reads the tensor and scores a candidate.
WorkerScores ==
    /\ pc = "pipeline"
    /\ tensorStage = "built"
    /\ compilerStage = "compiled"
    /\ scoredCount < MaxCandidates
    /\ scoredCount' = scoredCount + 1
    /\ UNCHANGED << ratesDerived, tensorStage, compilerStage, tensor, computedList,
                    events, pc >>
    /\ OthersUnchanged("pipe")

--------------------------------------------------------------------------

(* handleLineupChange(spot, id) on the batting-spot map, as AssignLineup   *)
(* has it (the old spot's value becomes undefined) and as BuildModal has   *)
(* it (the old spot's key is deleted).  The Select hands over              *)
(* selected.currentKey, which is undefined when the selection is cleared.  *)

undefinedId == "undefined"
IdList == << "ps1", "ps2", "ps3", "ps4" >>
CompositeIds == Range(IdList)
EditedIds == { IdList[n] : n \in 1 .. Min2(MaxIds, Len(IdList)) }
EditedSpots == { spot \in Spots : spot <= MaxEdited }

\* Mutant: the spot that held the id keeps it.
AssignLineup_handleLineupChange_keeps(prev, spot, compositeId) ==
    [ k \in DOMAIN prev \cup { spot } |->
        IF k = spot THEN compositeId ELSE prev[k] ]

\* AssignLineup: newLineup[k] = undefined where v === compositeId, then
\* newLineup[spot] = compositeId.
AssignLineup_handleLineupChange(prev, spot, compositeId) ==
    [ k \in DOMAIN prev \cup { spot } |->
        IF k = spot THEN compositeId
        ELSE IF prev[k] = compositeId THEN undefinedId ELSE prev[k] ]

\* BuildModal: delete newLineup[key] where it equals playerId, then
\* newLineup[spot] = playerId.
BuildModal_handleLineupChange(prev, spot, playerId) ==
    [ k \in { key \in DOMAIN prev : prev[key] # playerId } \cup { spot } |->
        IF k = spot THEN playerId ELSE prev[k] ]

InitSpots ==
    /\ component \in { "AssignLineup", "BuildModal" }
    /\ buildLineup = << >>
    /\ pc = "assign"
    /\ EarlierIdle
    /\ RestIdleBut("spot")

\* A Select of AssignLineup changes: onSelectionChange.
AssignLineupChange ==
    /\ pc = "assign"
    /\ component = "AssignLineup"
    /\ \E spot \in EditedSpots, id \in EditedIds \cup { undefinedId } :
          buildLineup' = AssignLineup_handleLineupChange(buildLineup, spot, id)
    /\ UNCHANGED << component, pc >>
    /\ OthersUnchanged("spot")

\* A Select of BuildModal changes: onSelectionChange.
BuildModalChange ==
    /\ pc = "assign"
    /\ component = "BuildModal"
    /\ \E spot \in EditedSpots, id \in EditedIds \cup { undefinedId } :
          buildLineup' = BuildModal_handleLineupChange(buildLineup, spot, id)
    /\ UNCHANGED << component, pc >>
    /\ OthersUnchanged("spot")

--------------------------------------------------------------------------

(* BuildController, three steps (players, constraints, review): the       *)
(* version of buildController.tsx.  Its dfs compares a streak with the cap *)
(* whatever the cap is, and its Next button is disabled by the memo at     *)
(* every step (the memo itself is false off step 1).                       *)

ThreeStep_LastStep == 2

RECURSIVE ThreeStep_dfs(_, _, _, _, _)
ThreeStep_dfs(mch, remaining, last, leftStreak, rightStreak) ==
    IF Len(remaining) = 0 THEN TRUE
    ELSE \E i \in TryIndices(remaining) :
            LET hand == remaining[i]
                rest == RemoveAt(remaining, i)
            IN  IF hand = "LEFT"
                THEN /\ ~(last = "LEFT" /\ leftStreak + 1 > mch[1])
                     /\ ThreeStep_dfs(mch, rest, "LEFT",
                            IF last = "LEFT" THEN leftStreak + 1 ELSE 1, 0)
                ELSE IF hand = "RIGHT"
                THEN /\ ~(last = "RIGHT" /\ rightStreak + 1 > mch[2])
                     /\ ThreeStep_dfs(mch, rest, "RIGHT", 0,
                            IF last = "RIGHT" THEN rightStreak + 1 ELSE 1)
                ELSE FALSE

ThreeStep_isConstraintImpossible(st, sps, mch) ==
    IF st # 1 THEN FALSE
    ELSE IF Len(hands(sps)) # NumSlots THEN FALSE
    ELSE ~ThreeStep_dfs(mch, hands(sps), NoHand, 0, 0)

\* The Next button's isDisabled.
ThreeStep_NextDisabled(st, sps, mch) ==
    \/ Len(sps) # NumSlots
    \/ \E i \in 1 .. Len(sps) : ~sps[i].season
    \/ ThreeStep_isConstraintImpossible(st, sps, mch)

InitThree ==
    /\ threeStep = 0
    /\ threeSelected \in Rosters
    /\ threeCaps \in (0 .. MaxCap) \X (0 .. MaxCap)
    /\ threeSubmitted = FALSE
    /\ pc = "build3"
    /\ EarlierIdle
    /\ RestIdleBut("three")

\* The Next button (shown while step < 2) and its onPress, nextStep.
ThreeStep_nextStep ==
    /\ pc = "build3"
    /\ threeStep < ThreeStep_LastStep
    /\ ~ThreeStep_NextDisabled(threeStep, threeSelected, threeCaps)
    /\ Len(threeSelected) = NumSlots
    /\ threeStep' = threeStep + 1
    /\ UNCHANGED << threeSelected, threeCaps, threeSubmitted, pc >>
    /\ OthersUnchanged("three")

\* The Back button: disabled at step 0.
ThreeStep_prevStep ==
    /\ pc = "build3"
    /\ threeStep # 0
    /\ threeStep' = threeStep - 1
    /\ UNCHANGED << threeSelected, threeCaps, threeSubmitted, pc >>
    /\ OthersUnchanged("three")

\* The Submit button (shown at step 2).
ThreeStep_Submit ==
    /\ pc = "build3"
    /\ threeStep = ThreeStep_LastStep
    /\ ~threeSubmitted
    /\ threeSubmitted' = TRUE
    /\ UNCHANGED << threeStep, threeSelected, threeCaps, pc >>
    /\ OthersUnchanged("three")

--------------------------------------------------------------------------
(* check_handedness_constraints applied to one lineup on its own: the      *)
(* hitters bat in the order 0..8 and walkHands gives each one's hand.      *)

\* The caps the check is called with: every left cap 0..9, each with one
\* right cap, so that both caps take every value.
AllCaps == 0 .. NumSlots
WalkCaps == { << c, NumSlots - c >> : c \in AllCaps }

BattingOrder == [ s \in Slots |-> s ]

InitWalk ==
    /\ pc = "hands"
    /\ walkHands \in [ Slots -> Hands ]
    /\ walkCaps = << 0, 0 >>
    /\ walkVerdict = "none"
    /\ EarlierIdle /\ RestIdleBut("walk")

CheckHandedness ==
    /\ pc = "hands"
    /\ \E caps \in WalkCaps :
          /\ walkCaps' = caps
          /\ walkVerdict' =
                IF check_handedness_constraints(BattingOrder, walkHands, caps[1], caps[2])
                THEN "accept" ELSE "reject"
    /\ pc' = "checked"
    /\ UNCHANGED walkHands
    /\ OthersUnchanged("walk")

--------------------------------------------------------------------------
(* The plate-appearance model of the BDNRP engine (specification, 4.2):    *)
(* states are base occupancy x outs within one half-inning, plus the       *)
(* absorbing "3 outs" state.  Probabilities are exact fractions: a hitter  *)
(* has RateDenominator plate appearances, so every rate is a count over    *)
(* RateDenominator and the mass of a state after n transitions is a whole  *)
(* number over RateDenominator^n.  The model follows one window of four    *)
(* hitters: the distribution, and next to it one play of the half-inning.  *)

WindowLength == 4

Bases == {1, 2, 3}
RatedEvents == << "1B", "2B", "3B", "HR", "BB", "HBP", "IBB" >>
Events == Range(RatedEvents) \cup {"OUT"}
Walks == {"BB", "HBP", "IBB"}

ThreeOuts == [ bases |-> {}, outs |-> 3 ]
InningStates ==
    { [ bases |-> b, outs |-> o ] : b \in SUBSET Bases, o \in 0 .. 2 } \cup {ThreeOuts}

\* Forced advance only: the batter takes first, a runner moves when the
\* base behind him is taken.
ForcedAdvance(b) ==
    IF 1 \notin b THEN b \cup {1}
    ELSE IF 2 \notin b THEN b \cup {2}
    ELSE {1, 2, 3}

\* Mutant: runners advance one base on an out.
PlateAppearance_out_advances(s, e) ==
    IF s = ThreeOuts THEN ThreeOuts
    ELSE IF e = "1B"
    THEN [ bases |-> {1} \cup (IF 1 \in s.bases THEN {2} ELSE {}), outs |-> s.outs ]
    ELSE IF e = "2B"
    THEN [ bases |-> {2} \cup (IF 1 \in s.bases THEN {3} ELSE {}), outs |-> s.outs ]
    ELSE IF e = "3B" THEN [ bases |-> {3}, outs |-> s.outs ]
    ELSE IF e = "HR" THEN [ bases |-> {}, outs |-> s.outs ]
    ELSE IF e \in Walks THEN [ bases |-> ForcedAdvance(s.bases), outs |-> s.outs ]
    ELSE IF s.outs = 2 THEN ThreeOuts
    ELSE [ bases |-> { r + 1 : r \in s.bases \ {3} }, outs |-> s.outs + 1 ]

\* The state after event e in state s.
PlateAppearance(s, e) ==
    IF s = ThreeOuts THEN ThreeOuts
    ELSE IF e = "1B"
    THEN [ bases |-> {1} \cup (IF 1 \in s.bases THEN {2} ELSE {}), outs |-> s.outs ]
    ELSE IF e = "2B"
    THEN [ bases |-> {2} \cup (IF 1 \in s.bases THEN {3} ELSE {}), outs |-> s.outs ]
    ELSE IF e = "3B" THEN [ bases |-> {3}, outs |-> s.outs ]
    ELSE IF e = "HR" THEN [ bases |-> {}, outs |-> s.outs ]
    ELSE IF e \in Walks THEN [ bases |-> ForcedAdvance(s.bases), outs |-> s.outs ]
    ELSE IF s.outs = 2 THEN ThreeOuts
    ELSE [ bases |-> s.bases, outs |-> s.outs + 1 ]

\* The runs that score on event e in state s.
RunsScored(s, e) ==
    IF s = ThreeOuts THEN 0
    ELSE IF e \in {"1B", "2B"} THEN Cardinality(s.bases \cap {2, 3})
    ELSE IF e = "3B" THEN Cardinality(s.bases)
    ELSE IF e = "HR" THEN Cardinality(s.bases) + 1
    ELSE IF e \in Walks THEN (IF s.bases = Bases THEN 1 ELSE 0)
    ELSE 0

\* The hitters of the window: how many of a hitter's RateDenominator plate
\* appearances end in each rated event, in the order of RatedEvents.
WindowRates ==
    << << 1, 1, 0, 0, 1, 0, 0 >>,
       << 0, 0, 1, 1, 0, 0, 0 >>,
       << 0, 0, 0, 0, 0, 1, 1 >>,
       << 1, 0, 0, 0, 0, 0, 0 >> >>
WindowHitters == DOMAIN WindowRates

\* The probability of event e for hitter h, over RateDenominator; the out
\* probability is what the seven rates leave.
RateOf(h, e) ==
    IF e = "OUT" THEN RateDenominator - SumSeq(WindowRates[h])
    ELSE LET i == CHOOSE j \in DOMAIN RatedEvents : RatedEvents[j] = e
         IN  WindowRates[h][i]

RECURSIVE SumOver(_, _)
SumOver(S, f) ==
    IF S = {} THEN 0
    ELSE LET x == CHOOSE y \in S : TRUE IN f[x] + SumOver(S \ {x}, f)

\* The mass that hitter h's plate appearance moves from state s to state t.
MassMoved(d, h, s, t) ==
    SumOver({ e \in Events : PlateAppearance(s, e) = t },
            [ e \in Events |-> d[s] * RateOf(h, e) ])

\* The distribution after hitter h's plate appearance.
Transition(d, h) ==
    [ t \in InningStates |->
        SumOver(InningStates, [ s \in InningStates |-> MassMoved(d, h, s, t) ]) ]

\* The expected runs of hitter h's plate appearance on the mass of the
\* states in S, over RateDenominator times the denominator of d.
ExpectedRuns(d, h, S) ==
    SumOver(S, [ s \in InningStates |->
        SumOver(Events, [ e \in Events |-> d[s] * RateOf(h, e) * RunsScored(s, e) ]) ])

InitInning ==
    /\ pc = "inning"
    /\ window = << >>
    /\ distribution = [ s \in InningStates |-> IF s = BasesEmpty THEN 1 ELSE 0 ]
    /\ massDenominator = 1
    /\ runsIncrement = 0
    /\ atBat = BasesEmpty
    /\ event = "none"
    /\ runsOnPlay = 0
    /\ EarlierIdle /\ RestIdleBut("inning")

\* Hitter h, not yet in the window, comes to the plate; the play takes one
\* of the events h has a positive probability of.
ApplyPlateAppearance(h, e) ==
    /\ pc = "inning"
    /\ Len(window) < WindowLength
    /\ h \notin Range(window)
    /\ RateOf(h, e) > 0
    /\ window' = Append(window, h)
    /\ distribution' = Transition(distribution, h)
    /\ massDenominator' = massDenominator * RateDenominator
    /\ runsIncrement' = ExpectedRuns(distribution, h, InningStates)
    /\ atBat' = PlateAppearance(atBat, e)
    /\ event' = e
    /\ runsOnPlay' = RunsScored(atBat, e)
    /\ UNCHANGED pc
    /\ OthersUnchanged("inning")

ApplyPlateAppearanceNext ==
    \E h \in WindowHitters, e \in Events : ApplyPlateAppearance(h, e)

--------------------------------------------------------------------------
(* The build page with its players: BuildController's selection and lineup *)
(* map, the components that add to the selection (the MLB and the ALPB     *)
(* player select, SearchMLBModal, CustomPlayerModal), PlayerTableEdit,     *)
(* AssignLineup, and BuildPage.handleSubmitMock, which builds the payload. *)
(* A player-season is [player, season, compositeId]; ids, names and years  *)
(* are strings.                                                            *)

noSeason == [ id |-> "undefined", year |-> "", teamName |-> "" ]
SeasonOf(seasonId, year, teamName) == [ id |-> seasonId, year |-> year, teamName |-> teamName ]
PlayerOf(playerId, fullName) == [ id |-> playerId, fullName |-> fullName ]

\* helper.ts: the player's id without a season, else
\* `${player.fullName} - ${teamName} ${season.year}`.
getPlayerSeasonCompositeId(thePlayer, theSeason) ==
    IF theSeason = noSeason THEN thePlayer.id
    ELSE LET teamName == IF theSeason.teamName = "" THEN "Unknown" ELSE theSeason.teamName
         IN  thePlayer.fullName \o " - " \o teamName \o " " \o theSeason.year

PlayerSeasonOf(thePlayer, theSeason, compositeId) ==
    [ player |-> thePlayer, season |-> theSeason, compositeId |-> compositeId ]

PlayerIds(sps) == { sps[i].player.id : i \in DOMAIN sps }
CompositeIdsOf(sps) == { sps[i].compositeId : i \in DOMAIN sps }

\* SelectMLBPlayers.handleSelectPlayer: keys is what the Select hands over,
\* the selected keys and the new one.
SelectMLB_handleSelectPlayer(prev, keys, thePlayer, theSeason) ==
    IF Cardinality(keys) > NumSlots THEN prev
    ELSE IF thePlayer.id \in PlayerIds(prev) THEN prev
    ELSE Append(prev, PlayerSeasonOf(thePlayer, theSeason,
                                     getPlayerSeasonCompositeId(thePlayer, theSeason)))

RECURSIVE UniqueByCompositeId(_, _)
\* new Map(), unique.set(compositeId, playerSeason) in order, then
\* Array.from(unique.values()): a key keeps the place of its first entry
\* and the value of its last.
UniqueByCompositeId(mergedList, done) ==
    IF mergedList = << >> THEN done
    ELSE LET ps == Head(mergedList)
         IN  IF ps.compositeId \in CompositeIdsOf(done)
             THEN UniqueByCompositeId(Tail(mergedList),
                     [ i \in DOMAIN done |->
                         IF done[i].compositeId = ps.compositeId THEN ps ELSE done[i] ])
             ELSE UniqueByCompositeId(Tail(mergedList), Append(done, ps))

\* SelectALPBPlayers.handleSelectPlayer
SelectALPB_handleSelectPlayer(prev, keys, fetched) ==
    IF Cardinality(keys) > NumSlots THEN prev
    ELSE LET newSelections == SelectSeq(fetched, LAMBDA ps : ps.compositeId \in keys)
             kept == SelectSeq(prev, LAMBDA ps : ps.compositeId \in keys)
         IN  UniqueByCompositeId(kept \o newSelections, << >>)

\* SearchMLBModal.handleSave: the unsaved player-seasons whose player is not
\* selected yet are appended.
SearchMLBModal_handleSave(prev, unsaved) ==
    prev \o SelectSeq(unsaved, LAMBDA ps : ps.player.id \notin PlayerIds(prev))

\* CustomPlayerModal.handleSave: id `custom-${Date.now()}`, compositeId
\* `${firstName} ${lastName} - custom`.
CustomPlayerModal_handleSave(prev, firstName, lastName, now) ==
    LET id == "custom-" \o now
    IN  Append(prev, PlayerSeasonOf(PlayerOf(id, firstName \o " " \o lastName),
                                    SeasonOf("season-" \o id, "2024", ""),
                                    firstName \o " " \o lastName \o " - custom"))

\* PlayerTableEdit, the row's Select: the rows of the player get the season.
PlayerTableEdit_changeSeason(prev, thePlayer, theSeason) ==
    [ i \in DOMAIN prev |->
        IF prev[i].player.id = thePlayer.id
        THEN PlayerSeasonOf(thePlayer, theSeason,
                            getPlayerSeasonCompositeId(thePlayer, theSeason))
        ELSE prev[i] ]

\* PlayerTableEdit, the row's remove button.
PlayerTableEdit_remove(prev, thePlayer) ==
    SelectSeq(prev, LAMBDA ps : ps.player.id # thePlayer.id)

\* BuildPage.handleSubmitMock: the payload.  An entry of selectedLineup or
\* of unassignedPlayers is written here as the place in the selection of
\* the player-season it is built from (name and data), null as 0.
TruthyId(id) == id # undefinedId /\ id # ""

FindByCompositeId(sps, compositeId) ==
    IF compositeId \in CompositeIdsOf(sps)
    THEN CHOOSE i \in DOMAIN sps :
            /\ sps[i].compositeId = compositeId
            /\ \A j \in 1 .. (i - 1) : sps[j].compositeId # compositeId
    ELSE 0

RECURSIVE Places(_, _, _)
\* The places i .. Len(sps) of the player-seasons whose compositeId is not in ids.
Places(sps, ids, i) ==
    IF i > Len(sps) THEN << >>
    ELSE (IF sps[i].compositeId \in ids THEN << >> ELSE << i >>) \o Places(sps, ids, i + 1)

\* BuildController: the player-seasons whose compositeId no spot holds.
unassignedPlayerIds(lineupInput, sps) ==
    Places(sps, { lineupInput[k] : k \in DOMAIN lineupInput } \ { undefinedId }, 1)

handleSubmitMock(lineupInput, unassignedPlayerSeasons, sps) ==
    LET assignedCompositeIds ==
            { id \in { lineupInput[k] : k \in DOMAIN lineupInput } : TruthyId(id) }
    IN  [ sent |-> TRUE,
          selectedLineup |->
              [ spot \in DOMAIN lineupInput |->
                  IF ~TruthyId(lineupInput[spot]) THEN 0
                  ELSE FindByCompositeId(sps, lineupInput[spot]) ],
          unassignedPlayers |->
              SelectSeq(unassignedPlayerSeasons,
                        LAMBDA i : sps[i].compositeId \notin assignedCompositeIds) ]

\* What the page is given.  The league decides which select step 0 shows.
Numeral == << "1", "2", "3", "4", "5", "6", "7", "8", "9", "10", "11", "12" >>
TeamName == "Owls"
BaseSize == NumSlots - 1
BasePlayer(n) == PlayerOf("p" \o Numeral[n], "Hitter " \o Numeral[n])
BaseSeason(n, year) == SeasonOf("p" \o Numeral[n] \o "-" \o year, year, TeamName)
Years == { "2023", "2024" }

\* The player-seasons the ALPB router sends: `${player.id}_${season.id}`.
FetchedALPB(thePlayer, theSeason) ==
    PlayerSeasonOf(thePlayer, theSeason, thePlayer.id \o "_" \o theSeason.id)

\* The player-seasons of SearchMLBPlayers:
\* `${player.id}_${season.id}_${season.teamName}`.
FetchedSearch(thePlayer, theSeason) ==
    PlayerSeasonOf(thePlayer, theSeason,
                   thePlayer.id \o "_" \o theSeason.id \o "_" \o theSeason.teamName)

\* Eight players chosen through the league's select.
BaseSelection(league) ==
    [ n \in 1 .. BaseSize |->
        IF league = "MLB"
        THEN PlayerSeasonOf(BasePlayer(n), BaseSeason(n, "2024"),
                            getPlayerSeasonCompositeId(BasePlayer(n), BaseSeason(n, "2024")))
        ELSE FetchedALPB(BasePlayer(n), BaseSeason(n, "2024")) ]

\* One more player in the list of each select, the search modal's results
\* (two seasons of one player), and the names typed into the custom form.
ListedPlayer == PlayerOf("m1", "Al Li")
ListedSeasons == { SeasonOf("m1-2024", "2024", TeamName), noSeason }
ListedALPB == << FetchedALPB(PlayerOf("a1", "Bo Ek"), SeasonOf("s24", "2024", TeamName)) >>
SearchedPlayer == PlayerOf("x1", "Cy Ott")
SearchResults ==
    << FetchedSearch(SearchedPlayer, SeasonOf("x1-2023", "2023", TeamName)),
       FetchedSearch(SearchedPlayer, SeasonOf("x1-2024", "2024", TeamName)) >>
UnsavedLists == { << SearchResults[1] >>, << SearchResults[2] >>, SearchResults }
CustomNames == { << "Al", "Li" >>, << "Di", "Roe" >> }

\* The rows of the player table that are edited, and the spots that are.
EditedRows == { BasePlayer(1) }
PageSpots == { spot \in Spots : spot <= MaxPageSpots }

InitPage ==
    /\ pc = "page"
    /\ pageLeague \in { "MLB", "ALPB" }
    /\ pageStep = 0
    /\ pageSelected = BaseSelection(pageLeague)
    /\ pageLineup = [ spot \in Spots |-> undefinedId ]
    /\ pagePayload = NoPayload
    /\ pageClock = 0
    /\ EarlierIdle /\ RestIdleBut("page")

\* The page is open, the request has not been sent.
PageOpen == pc = "page" /\ ~pagePayload.sent

\* The components of step 0 change the selection.
SetSelected(newSelection) ==
    /\ PageOpen
    /\ pageStep = 0
    /\ Len(newSelection) <= MaxSelected
    /\ pageSelected' = newSelection
    /\ UNCHANGED << pageLeague, pageStep, pageLineup, pagePayload, pc >>
    /\ OthersUnchanged("page")

\* The MLB select: a listed player is chosen, with the season of the chosen
\* year and team when the player has one.
SelectMLBPlayer ==
    /\ pageLeague = "MLB"
    /\ ListedPlayer.id \notin PlayerIds(pageSelected)
    /\ \E theSeason \in ListedSeasons :
          SetSelected(SelectMLB_handleSelectPlayer(pageSelected,
                          PlayerIds(pageSelected) \cup { ListedPlayer.id },
                          ListedPlayer, theSeason))
    /\ UNCHANGED pageClock

\* The ALPB select: a listed player-season is chosen.
SelectALPBPlayer ==
    /\ pageLeague = "ALPB"
    /\ \E n \in DOMAIN ListedALPB :
          /\ ListedALPB[n].compositeId \notin CompositeIdsOf(pageSelected)
          /\ SetSelected(SelectALPB_handleSelectPlayer(pageSelected,
                            CompositeIdsOf(pageSelected) \cup { ListedALPB[n].compositeId },
                            ListedALPB))
    /\ UNCHANGED pageClock

\* "Add Selected Players" of the search modal (shown with the ALPB select).
SaveSearched ==
    /\ pageLeague = "ALPB"
    /\ \E unsaved \in UnsavedLists :
          SetSelected(SearchMLBModal_handleSave(pageSelected, unsaved))
    /\ UNCHANGED pageClock

\* "Save" of the custom-player form.
SaveCustomPlayer ==
    /\ pageClock < Len(Numeral)
    /\ \E name \in CustomNames :
          SetSelected(CustomPlayerModal_handleSave(pageSelected, name[1], name[2],
                                                   Numeral[pageClock + 1]))
    /\ pageClock' = pageClock + 1

\* The season Select of a row of the player table.
ChangeSeason ==
    /\ \E thePlayer \in EditedRows, year \in Years :
          /\ thePlayer.id \in PlayerIds(pageSelected)
          /\ SetSelected(PlayerTableEdit_changeSeason(pageSelected, thePlayer,
                 SeasonOf(thePlayer.id \o "-" \o year, year, TeamName)))
    /\ UNCHANGED pageClock

\* The remove button of a row of the player table.
RemovePlayer ==
    /\ \E thePlayer \in EditedRows :
          /\ thePlayer.id \in PlayerIds(pageSelected)
          /\ SetSelected(PlayerTableEdit_remove(pageSelected, thePlayer))
    /\ UNCHANGED pageClock

\* The page's caps stay [0, 0] (the inputs that would set them are not
\* rendered), so Next is disabled by the selection alone.
PageCaps == << 0, 0 >>
PageNextDisabled ==
    \/ Len(pageSelected) # NumSlots
    \/ \E i \in DOMAIN pageSelected : pageSelected[i].season = noSeason

SetPageStep(newStep) ==
    /\ PageOpen
    /\ pageStep' = newStep
    /\ UNCHANGED << pageLeague, pageSelected, pageLineup, pagePayload, pageClock, pc >>
    /\ OthersUnchanged("page")

PageNext == pageStep < LastStep /\ ~PageNextDisabled /\ SetPageStep(pageStep + 1)
PageBack == pageStep # 0 /\ SetPageStep(pageStep - 1)
PageBreadcrumb ==
    \E index \in Steps :
        index # pageStep /\ Len(pageSelected) = NumSlots /\ SetPageStep(index)

\* A batting spot's Select of AssignLineup (step 1): a listed player-season
\* is chosen.
AssignSpot ==
    /\ PageOpen
    /\ pageStep = 1
    /\ \E spot \in PageSpots, id \in CompositeIdsOf(pageSelected) :
          pageLineup' = AssignLineup_handleLineupChange(pageLineup, spot, id)
    /\ UNCHANGED << pageLeague, pageStep, pageSelected, pagePayload, pageClock, pc >>
    /\ OthersUnchanged("page")

\* The pitcher-handedness step (step 2), one call from start to end: the
\* player-seasons for which splits come back get the split season and the
\* compositeId of helper.ts.
RekeyBySplit ==
    /\ PageOpen
    /\ pageStep = 2
    /\ \E found \in BOOLEAN :
          pageSelected' =
              [ i \in DOMAIN pageSelected |->
                  LET ps == pageSelected[i]
                  IN  IF ps.season = noSeason \/ ~found THEN ps
                      ELSE PlayerSeasonOf(ps.player, ps.season,
                               getPlayerSeasonCompositeId(ps.player, ps.season)) ]
    /\ UNCHANGED << pageLeague, pageStep, pageLineup, pagePayload, pageClock, pc >>
    /\ OthersUnchanged("page")

\* The Submit button (step 3).
PageSubmit ==
    /\ PageOpen
    /\ pageStep = LastStep
    /\ pagePayload' = handleSubmitMock(pageLineup,
                          unassignedPlayerIds(pageLineup, pageSelected), pageSelected)
    /\ UNCHANGED << pageLeague, pageStep, pageSelected, pageLineup, pageClock, pc >>
    /\ OthersUnchanged("page")

--------------------------------------------------------------------------
\* The pitcher-handedness step with calls of handleHandednessChange that
\* overlap: the radio group stays enabled while a call waits for its splits.

PitcherHandednessOptions == { "LEFT", "RIGHT", "NONE" }

\* The split a call takes from the answer of getPlayerSplitStats.
splitStatsOf(handedness) ==
    IF handedness = "LEFT" THEN "vsLeft"
    ELSE IF handedness = "RIGHT" THEN "vsRight"
    ELSE "overall"

\* A player-season of this step: the player and the stats its season holds.
SplitPlayers == 1 .. NumSlots
SplitSeasonOf(thePlayer, theStats) == [ player |-> thePlayer, stats |-> theStats ]
OverallSelection == [ i \in SplitPlayers |-> SplitSeasonOf(i, "overall") ]

\* The players for which the service has no split in one answer.
Unsplit == { {}, { 1 } }

\* updatedSeasons: the captured selection with the split of the call spread
\* over every season for which a split came back.
updatedSeasons(captured, handedness, missing) ==
    [ i \in DOMAIN captured |->
        LET ps == captured[i]
        IN  IF ps.player \in missing THEN ps
            ELSE SplitSeasonOf(ps.player, splitStatsOf(handedness)) ]

InitSplits ==
    /\ pc = "splits"
    /\ splitHandedness = "NONE"
    /\ splitSelection = OverallSelection
    /\ splitCalls = {}
    /\ splitStarted = 0
    /\ splitFaulty = FALSE
    /\ EarlierIdle
    /\ RestIdleBut("splits")

\* handleHandednessChange up to its await, called by the radio group when its
\* value changes: the handedness is set, the selection of the render is kept
\* by the call and the selection is emptied.
handleHandednessChange ==
    /\ pc = "splits"
    /\ splitStarted < MaxSplitCalls
    /\ \E handedness \in PitcherHandednessOptions \ { splitHandedness } :
          /\ splitHandedness' = handedness
          /\ splitCalls' = splitCalls \cup
                 { [ id |-> splitStarted + 1, handedness |-> handedness,
                     oldPlayerseasons |-> splitSelection ] }
    /\ splitSelection' = << >>
    /\ splitStarted' = splitStarted + 1
    /\ UNCHANGED << splitFaulty, pc >>
    /\ OthersUnchanged("splits")

\* The fetches of one call come back: the call sets its updated selection.
SplitsResolve ==
    /\ pc = "splits"
    /\ \E call \in splitCalls, missing \in Unsplit :
          /\ splitSelection' =
                 updatedSeasons(call.oldPlayerseasons, call.handedness, missing)
          /\ splitCalls' = splitCalls \ { call }
          /\ splitFaulty' = (splitFaulty \/ (missing # {} /\ call.oldPlayerseasons # << >>))
    /\ UNCHANGED << splitHandedness, splitStarted, pc >>
    /\ OthersUnchanged("splits")

\* A fetch of one call fails: the call puts back the selection it kept.
SplitsReject ==
    /\ pc = "splits"
    /\ \E call \in splitCalls :
          /\ call.oldPlayerseasons # << >>
          /\ splitSelection' = call.oldPlayerseasons
          /\ splitCalls' = splitCalls \ { call }
    /\ splitFaulty' = TRUE
    /\ UNCHANGED << splitHandedness, splitStarted, pc >>
    /\ OthersUnchanged("splits")

\* Every call that was started has completed, and every fetch brought a split.
SplitsSettled ==
    /\ pc = "splits"
    /\ splitStarted > 0
    /\ splitCalls = {}
    /\ ~splitFaulty

\* The selection holds the nine players again, each with the given stats.
NineWith(theStats) == splitSelection = [ i \in SplitPlayers |-> SplitSeasonOf(i, theStats) ]

\* C29: after every in-flight handleHandednessChange call has completed, the
\* selection again holds the same nine players and their stats are the split
\* for the pitcherHandedness that is selected, whatever the order in which
\* overlapping calls were made and their fetches came back.
C29_SettledSelectionHasCurrentSplit ==
    SplitsSettled => NineWith(splitStatsOf(splitHandedness))

--------------------------------------------------------------------------
\* The controller's selection kept in localStorage across reloads of the page.

jsonNull == -1002

\* JSON.stringify of a number: its decimal text, and null for NaN.
JSON_stringifyNumber(x) == IF x = NaN \/ x = jsonNull THEN << "null" >> ELSE ToText(x)

\* JSON.parse of that text.
JSON_parseNumber(text) == IF text = << "null" >> THEN jsonNull ELSE parseInt(text)

\* JSON.stringify and JSON.parse of a selection; a player-season is its
\* compositeId and the plate appearances of its season.
JSON_stringify(selection) ==
    [ i \in DOMAIN selection |->
        [ compositeId |-> selection[i].compositeId,
          plateAppearances |-> JSON_stringifyNumber(selection[i].plateAppearances) ] ]
JSON_parse(text) ==
    [ i \in DOMAIN text |->
        [ compositeId |-> text[i].compositeId,
          plateAppearances |-> JSON_parseNumber(text[i].plateAppearances) ] ]

\* The item under "selectedPlayerSeasons" when a text is stored.
ItemOf(text) == [ present |-> TRUE, text |-> text ]

\* Player-seasons of the league's feed: plateAppearances is parseInt(p.ab ?? "0").
FeedAtBats == { << "9" >>, << >> }
ReloadPlayerSeason(id, ab) == [ compositeId |-> id, plateAppearances |-> parseInt(ab) ]
ReloadSelections ==
    { << >> } \cup { << ReloadPlayerSeason("a", ab) >> : ab \in FeedAtBats }
              \cup { << ReloadPlayerSeason("a", << "9" >>), ReloadPlayerSeason("b", ab) >> : ab \in FeedAtBats }


\* The second effect: the selection is stored when isLoaded holds.
storeEffect(loaded, selection, item) ==
    IF loaded THEN ItemOf(JSON_stringify(selection)) ELSE item

InitReload ==
    /\ pc = "reload"
    /\ storedItem \in { NoItem } \cup { ItemOf(JSON_stringify(s)) : s \in ReloadSelections }
    /\ mountPhase = "rendered"
    /\ ctlSelected = << >>
    /\ isLoaded = FALSE
    /\ pendingSelected = NoPending
    /\ beforeReload = NoReload
    /\ reloads = 0
    /\ EarlierIdle
    /\ RestIdleBut("reload")

\* The first effect of the mount: the item is read, and setIsLoaded(true).
MountRead ==
    /\ pc = "reload"
    /\ mountPhase = "rendered"
    /\ pendingSelected' =
           IF storedItem.present
           THEN [ set |-> TRUE, value |-> JSON_parse(storedItem.text) ]
           ELSE NoPending
    /\ mountPhase' = "read"
    /\ UNCHANGED << storedItem, ctlSelected, isLoaded, beforeReload, reloads, pc >>
    /\ OthersUnchanged("reload")

\* The second effect of the mount, with the isLoaded of the first render.
MountStoreEffect ==
    /\ pc = "reload"
    /\ mountPhase = "read"
    /\ storedItem' = storeEffect(isLoaded, ctlSelected, storedItem)
    /\ mountPhase' = "committed"
    /\ UNCHANGED << ctlSelected, isLoaded, pendingSelected, beforeReload, reloads, pc >>
    /\ OthersUnchanged("reload")

\* The render after the mount's effects: the state they set is in force, and
\* the second effect runs again when the selection was set.
MountRerender ==
    /\ pc = "reload"
    /\ mountPhase = "committed"
    /\ isLoaded' = TRUE
    /\ ctlSelected' = IF pendingSelected.set THEN pendingSelected.value ELSE ctlSelected
    /\ storedItem' = IF pendingSelected.set
                     THEN storeEffect(TRUE, pendingSelected.value, storedItem)
                     ELSE storedItem
    /\ pendingSelected' = NoPending
    /\ mountPhase' = "loaded"
    /\ UNCHANGED << beforeReload, reloads, pc >>
    /\ OthersUnchanged("reload")

\* setSelectedPlayerSeasons on the loaded controller, with the second effect.
ChangeSelection ==
    /\ pc = "reload"
    /\ mountPhase = "loaded"
    /\ \E selection \in ReloadSelections :
          /\ ctlSelected' = selection
          /\ storedItem' = storeEffect(isLoaded, selection, storedItem)
    /\ UNCHANGED << mountPhase, isLoaded, pendingSelected, beforeReload, reloads, pc >>
    /\ OthersUnchanged("reload")

\* The Create New Lineup button: the item is removed unless the selections
\* are reused, and the page is reloaded.
CreateNewLineup ==
    /\ pc = "reload"
    /\ mountPhase = "loaded"
    /\ reloads < MaxReloads
    /\ \E reuseSelections \in BOOLEAN :
          /\ storedItem' = IF ~reuseSelections THEN NoItem ELSE storedItem
          /\ beforeReload' = IF reuseSelections
                             THEN [ kept |-> TRUE, value |-> ctlSelected ]
                             ELSE NoReload
    /\ ctlSelected' = << >>
    /\ isLoaded' = FALSE
    /\ pendingSelected' = NoPending
    /\ mountPhase' = "rendered"
    /\ reloads' = reloads + 1
    /\ UNCHANGED pc
    /\ OthersUnchanged("reload")

\* The controller has loaded.
ControllerLoaded == pc = "reload" /\ mountPhase = "loaded"

\* What a reload would restore from the item.
Restored(item) == IF item.present THEN JSON_parse(item.text) ELSE << >>

\* The item holds the current selection.
StoredIsCurrent == Restored(storedItem) = ctlSelected

\* The selection is the one of before a reload that kept the item.
RestoredExactly == beforeReload.kept => ctlSelected = beforeReload.value

\* C30: a reload of the build page restores exactly the selection that was
\* current before it (a reload that was asked to drop the selections aside):
\* on the loaded controller the item stored under selectedPlayerSeasons is
\* the current selection after every change, and no step before the
\* controller has loaded writes the item.
C30_ReloadRestoresSelection ==
    [][ /\ (pc = "reload" /\ mountPhase # "loaded" /\ mountPhase' # "loaded")
            => storedItem' = storedItem
        /\ ControllerLoaded' => StoredIsCurrent'
        /\ (~ControllerLoaded /\ ControllerLoaded') => RestoredExactly' ]_vars

--------------------------------------------------------------------------

Init ==
    \/ InitSearch \/ InitBuild \/ InitHandler \/ InitHeaps
    \/ InitStats \/ InitRate \/ InitPipe \/ InitSpots \/ InitThree
    \/ InitWalk \/ InitInning \/ InitPage \/ InitSplits \/ InitReload

Next ==
    \/ OptimizeLineup
    \/ nextStep
    \/ prevStep
    \/ \E index \in Steps : BreadcrumbClick(index)
    \/ Submit
    \/ MethodNotAllowed
    \/ TrackFilledSpots
    \/ PlaceUnassigned
    \/ Respond
    \/ Cancel
    \/ CheckFlagNext
    \/ VisitNext
    \/ Merge
    \/ getPlayerStatsMLB
    \/ getPlayerStatsALPB
    \/ handleSave
    \/ DeriveRates
    \/ DeriveHitterNext
    \/ StartTensorBuild
    \/ FinishTensorBuild
    \/ StartCompile
    \/ FinishCompile
    \/ WorkerScores
    \/ AssignLineupChange
    \/ BuildModalChange
    \/ ThreeStep_nextStep
    \/ ThreeStep_prevStep
    \/ ThreeStep_Submit
    \/ CheckHandedness
    \/ ApplyPlateAppearanceNext
    \/ SelectMLBPlayer
    \/ SelectALPBPlayer
    \/ SaveSearched
    \/ SaveCustomPlayer
    \/ ChangeSeason
    \/ RemovePlayer
    \/ PageNext
    \/ PageBack
    \/ PageBreadcrumb
    \/ AssignSpot
    \/ RekeyBySplit
    \/ PageSubmit
    \/ handleHandednessChange
    \/ SplitsResolve
    \/ SplitsReject
    \/ MountRead
    \/ MountStoreEffect
    \/ MountRerender
    \/ ChangeSelection
    \/ CreateNewLineup

Spec == Init /\ [][Next]_vars

--------------------------------------------------------------------------
(* What the search is measured against: the candidate lineups of the       *)
(* constraint set, the cyclic handedness rule, the order by score and then *)
(* by the lineup's hitter indices.                                         *)

FreeSlots   == Slots \ DOMAIN constrained_positions
FreeHitters == Hitters \ { constrained_positions[s] : s \in DOMAIN constrained_positions }

Candidates ==
    { [ pos \in Slots |-> IF pos \in FreeSlots THEN f[pos] ELSE constrained_positions[pos] ]
      : f \in { g \in [ FreeSlots -> FreeHitters ] :
                  \A a, b \in FreeSlots : a # b => g[a] # g[b] } }

\* A run of more than `cap` hitters of one hand on the nine-slot cycle, each
\* slot counted once: cap + 1 slots in a row, slot 8 followed by slot 0.
\* handAt gives the hand batting in each slot.
CyclicRunLongerThan(handAt, hand, cap) ==
    /\ cap < NumSlots
    /\ \E s \in Slots : \A i \in 0 .. cap : handAt[(s + i) % NumSlots] = hand

\* The cyclic rule: a positive cap bounds the runs of its hand.
CyclicRule(handAt, left, right) ==
    /\ left > 0 => ~CyclicRunLongerThan(handAt, "LEFT", left)
    /\ right > 0 => ~CyclicRunLongerThan(handAt, "RIGHT", right)

RunLongerThan(lineup, hand, cap) ==
    CyclicRunLongerThan([ s \in Slots |-> player_handedness[lineup[s]] ], hand, cap)

WithinCaps(lineup) ==
    CyclicRule([ s \in Slots |-> player_handedness[lineup[s]] ],
               max_consecutive_left, max_consecutive_right)

\* Some arrangement of nine LEFT/RIGHT tokens, nLeft of them LEFT, satisfies
\* the cyclic rule.
CyclicFeasible(nLeft, left, right) ==
    \E P \in KSubsets(Slots, nLeft) :
        CyclicRule([ s \in Slots |-> IF s \in P THEN "LEFT" ELSE "RIGHT" ], left, right)

CountOf(seq, x) == Cardinality({ i \in 1 .. Len(seq) : seq[i] = x })

RECURSIVE Factorial(_)
Factorial(n) == IF n = 0 THEN 1 ELSE n * Factorial(n - 1)

\* The page state the controller is in / the roster a search request is for.
Building  == pc = "build"
NineHands == Len(hands(selectedPlayerSeasons)) = NumSlots
AllLeft(seq) == \A i \in 1 .. Len(seq) : seq[i] = "LEFT"
PreCheck  == isConstraintImpossible(step, selectedPlayerSeasons, maxConsecutiveHandedness)
RequestRoster ==
    [ i \in 1 .. NumSlots |-> [ battingHand |-> player_handedness[i - 1], season |-> TRUE ] ]
RequestCaps == << max_consecutive_left, max_consecutive_right >>

Accepted == { lineup \in Candidates : WithinCaps(lineup) }

ScoreOf(lineup) == _score_lineup(lineup, load_bdnrp_tensor(val))

\* The accepted candidates, each with its score.
Scored == { << lineup, ScoreOf(lineup) >> : lineup \in Accepted }

LexLess(a, b) ==
    \E i \in Slots : a[i] < b[i] /\ \A j \in 0 .. (i - 1) : a[j] = b[j]

\* Score descending, equal scores by the lineup's hitter indices.
Before(p, q) ==
    \/ p[2] > q[2]
    \/ p[2] = q[2] /\ LexLess(p[1], q[1])

\* The first n of the scored lineups S in the order Before.
FirstN(S, n) ==
    [ r \in 1 .. Min2(n, Cardinality(S)) |->
        CHOOSE p \in S : Cardinality({ q \in S : Before(q, p) }) = r - 1 ]

Answered     == return_top_n > 1                \* top_list holds a response
AnsweredN    == return_top_n - 1                \* ... to this top_n
AnsweredTwo  == return_top_n > 2                \* prev_top_list holds one too
Returned(resp) == { resp.lineups[r].lineup : r \in DOMAIN resp.lineups }
ScoresOf(resp) == [ r \in DOMAIN resp.lineups |-> resp.lineups[r].score ]
TiedScores   == \E p, q \in Scored : p # q /\ p[2] = q[2]

IsPrefix(s, t) == Len(s) <= Len(t) /\ \A i \in DOMAIN s : s[i] = t[i]

--------------------------------------------------------------------------
--------------------------------------------------------------------------
StreamDone     == pc = "merged" /\ engineOutcome = "Ok"
ScoresOfMerged == [ r \in DOMAIN merged |-> candidateScore[merged[r]] ]
DistinctScores ==
    \A c, d \in DOMAIN candidateScore : c # d => candidateScore[c] # candidateScore[d]

--------------------------------------------------------------------------
--------------------------------------------------------------------------
\* The spots of the request that carry a named entry.
NamedSpots ==
    { spot \in Spots : spot \in DOMAIN selectedLineup /\ selectedLineup[spot].name # << >> }

FullName(entry) ==
    entry.firstName \o (IF entry.lastName = << >> THEN << >> ELSE << " " >> \o entry.lastName)

\* The response entry at spot is the request's entry: selected, with its
\* season data and its name (first and last name spell the trimmed name;
\* a blank name reads "Unknown").
HoldsSelectedEntry(spot) ==
    LET entry == handlerLineup[spot]
        given == selectedLineup[spot]
    IN  /\ entry.isSelected /\ ~entry.isUnassigned
        /\ entry.season = given.data
        /\ IF trim(given.name) = << >>
           THEN entry.firstName = Unknown /\ entry.lastName = << >>
           ELSE FullName(entry) = trim(given.name)

\* C4: every returned lineup of the search holds each fixed hitter in its
\* fixed batting position, and once the submit-lineup handler has gone
\* through the selected lineup every spot that carried a named entry holds
\* that entry, selected, however the unassigned players are placed.
C4_FixedPositionsRespected ==
    /\ Answered =>
          \A returned \in Returned(top_list) :
             \A pos \in DOMAIN constrained_positions :
                returned[pos] = constrained_positions[pos]
    /\ (pc \in { "filling", "responded" } /\ status # 405) =>
          \A spot \in NamedSpots :
             spot \in DOMAIN handlerLineup /\ HoldsSelectedEntry(spot)

\* A response in which named spots were kept, an unassigned player was
\* placed, and another was left over because no spot remained.
C4_Witness ==
    /\ pc = "responded" /\ status = 200
    /\ NamedSpots # {}
    /\ \E spot \in DOMAIN handlerLineup : handlerLineup[spot].isUnassigned
    /\ playerIndex <= Len(unassignedPlayers)
    /\ availableSpots = << >>

--------------------------------------------------------------------------
\* C5: every returned lineup satisfies the cyclic handedness rule: with a
\* positive cap no run of LEFT (RIGHT) hitters around the nine-slot cycle is
\* longer than the cap; a SWITCH hitter belongs to no run.
C5_CyclicCapsRespected ==
    Answered => \A lineup \in Returned(top_list) : WithinCaps(lineup)

\* A returned lineup with a run that wraps from slot 8 to slot 0 at the cap,
\* while some candidate was rejected.
C5_Witness ==
    /\ Answered /\ max_consecutive_left > 0
    /\ Cardinality(Accepted) < Cardinality(Candidates)
    /\ \E lineup \in Returned(top_list) :
          /\ player_handedness[lineup[LastSlot]] = "LEFT"
          /\ player_handedness[lineup[0]] = "LEFT"
          /\ RunLongerThan(lineup, "LEFT", max_consecutive_left - 1)

--------------------------------------------------------------------------
--------------------------------------------------------------------------
--------------------------------------------------------------------------
--------------------------------------------------------------------------
\* C9: with nine LEFT hitters and a left cap of 1 or 2 the request fails as
\* infeasible and nothing is enumerated, scored or submitted: the search
\* answers with an error without having enumerated or scored a lineup, and
\* the build controller reports the constraint impossible at the constraints
\* step and never hands the lineup to handleSubmit.
C9_InfeasibleNothingSearched ==
    /\ (/\ Answered
        /\ \A h \in Hitters : player_handedness[h] = "LEFT"
        /\ max_consecutive_left \in {1, 2})
       => (top_list.error /\ enumerated = 0 /\ scored = 0)
    /\ (/\ Building /\ NineHands
        /\ AllLeft(hands(selectedPlayerSeasons))
        /\ maxConsecutiveHandedness[1] \in {1, 2})
       => (submitted = << >> /\ (step = 1 => PreCheck))

--------------------------------------------------------------------------
\* C10: caps of 0 limit nothing: with both caps 0 the build controller's
\* check is false for every roster at every step, and the search accepts
\* every candidate it enumerates (factorial of the number of free positions).
C10_ZeroCapsNoLimit ==
    /\ (Building /\ maxConsecutiveHandedness = << 0, 0 >>) => ~PreCheck
    /\ (Answered /\ max_consecutive_left = 0 /\ max_consecutive_right = 0) =>
          /\ ~top_list.error
          /\ Accepted = Candidates
          /\ enumerated = Factorial(Cardinality(FreeSlots))
          /\ scored = enumerated

\* The constraints step with nine LEFT hitters and both caps 0.
C10_Witness ==
    /\ Building /\ step = 1 /\ NineHands
    /\ AllLeft(hands(selectedPlayerSeasons))
    /\ maxConsecutiveHandedness = << 0, 0 >>

--------------------------------------------------------------------------
Searching  == pc \in {"ready", "done"}
Enumerated == create_constrained_lineups(constrained_positions,
                  unconstrained_players, available_positions)
FixedCount == Cardinality(DOMAIN constrained_positions)

\* What the enumeration produces for k fixed slots: (9 - k)! lineups,
\* pairwise different (as many different lineups as lineups), each a permutation of the nine hitters that agrees
\* with the fixed assignment; the search has enumerated that many.
EnumerationExact ==
    LET all == Enumerated
    IN  /\ Len(all) = Factorial(NumSlots - FixedCount)
        /\ Cardinality(Range(all)) = Len(all)
        /\ \A lineup \in Range(all) :
              /\ Range(lineup) = Hitters
              /\ \A s \in DOMAIN constrained_positions :
                    lineup[s] = constrained_positions[s]
        /\ Answered => enumerated = Factorial(NumSlots - FixedCount)

EightFixed == FixedCount = LastSlot

--------------------------------------------------------------------------
Engine         == pc \in {"visiting", "merged"}
EngineReturned == pc = "merged"

\* A worker takes at most one batch of candidates after the flag is set, and
\* a worker that has stopped read the flag set between two batches.
WorkersStopWithinBatch ==
    /\ \A w \in Workers : sinceCancel[w] <= BatchSize
    /\ \A w \in stopped : cancelled /\ batchLeft[w] = 0

--------------------------------------------------------------------------
SubmitPressed == Building /\ submitted # << >>
NineWithSeasons ==
    /\ Len(selectedPlayerSeasons) = NumSlots
    /\ \A i \in 1 .. Len(selectedPlayerSeasons) : selectedPlayerSeasons[i].season

\* C13: handleSubmit is invoked only in states where exactly nine
\* player-seasons are selected and every one of them has a season, whatever
\* the Next, Back and breadcrumb clicks before it (the selection is the one
\* the page holds when Submit is pressed; Submit does not change it).
C13_SubmitOnlyWithNineSeasons ==
    SubmitPressed => NineWithSeasons

--------------------------------------------------------------------------
Adapted == pc = "season"

\* singles = hits - doubles - triples - homeruns, all five of them numbers.
SinglesRelation(rec) ==
    /\ IsNumber(rec.hits) /\ IsNumber(rec.singles) /\ IsNumber(rec.doubles)
    /\ IsNumber(rec.triples) /\ IsNumber(rec.homeruns)
    /\ rec.singles = rec.hits - rec.doubles - rec.triples - rec.homeruns

\* C15: every Season the MLB adapter, the ALPB adapter and the
\* custom-player form produce satisfies singles = hits - doubles - triples -
\* homeruns, for every input they accept, counts missing or zero included.
C15_SinglesFromHits ==
    Adapted => \A i \in DOMAIN season : SinglesRelation(season[i])

--------------------------------------------------------------------------
Deriving == pc = "counts"
Derived  == pc = "rates"
RatesSum == SumSeq(rateResult.numerators)
NonNegativeRates ==
    /\ rateResult.kind = "Rates"
    /\ Len(rateResult.numerators) = 7
    /\ \A e \in 1 .. 7 : rateResult.numerators[e] >= 0
Invalid == hitterCounts.plateAppearances <= 0 \/ AnyNegative(hitterCounts)

\* The result as the claim states it: RateOverflow when the seven counts sum
\* to more than PA, else rates whose sum is at most 1.
ResultAsStated ==
    IF Invalid THEN rateResult.kind = "InvalidStats"
    ELSE IF SumSeq(EventCounts(hitterCounts)) > hitterCounts.plateAppearances
    THEN rateResult.kind = "RateOverflow"
    ELSE NonNegativeRates /\ RatesSum <= rateResult.denominator

\* The result with the tolerance: RateOverflow when the seven counts sum to
\* more than PA * (1 + 1e-6), else rates whose sum is at most 1 + 1e-6.
ResultWithTolerance ==
    IF Invalid THEN rateResult.kind = "InvalidStats"
    ELSE IF ExceedsTolerance(hitterCounts)
    THEN rateResult.kind = "RateOverflow"
    ELSE /\ NonNegativeRates
         /\ RatesSum - rateResult.denominator
                <= rateResult.denominator \div ToleranceInverse

\* The deriver changes nothing but its result.
DeriverIsPure == UNCHANGED hitterCounts /\ OthersUnchanged("rate")

\* C16 as stated: the Rate Deriver returns InvalidStats when PA <= 0 or a
\* count is negative, RateOverflow when the seven event counts sum to more
\* than PA, and otherwise seven non-negative rates whose sum is at most 1;
\* it changes no state outside its result.
C16_RateDeriverContract ==
    [][ (Deriving /\ Derived') => (ResultAsStated' /\ DeriverIsPure) ]_vars

\* C16 amended: RateOverflow when the seven event counts sum to more than
\* PA * (1 + 1e-6), otherwise seven non-negative rates whose sum is at most
\* 1 + 1e-6; the rest as stated.
C16_RateDeriverContractWithTolerance ==
    [][ (Deriving /\ Derived') => (ResultWithTolerance' /\ DeriverIsPure) ]_vars

\* A million plate appearances and a million and one events: within the
\* tolerance, so rates come back, and their sum is more than 1.
C16_Witness ==
    /\ Derived
    /\ hitterCounts.plateAppearances = LargePA
    /\ rateResult.kind = "Rates"
    /\ RatesSum = rateResult.denominator + 1

--------------------------------------------------------------------------
InPipeline == pc = "pipeline"

--------------------------------------------------------------------------
TensorBuilt == InPipeline /\ tensorStage = "built"
DistinctQuadruples == { q \in Quadruples : Distinct4(q[1], q[2], q[3], q[4]) }

--------------------------------------------------------------------------
Assigning == pc = "assign"

\* What a spot holds in a map: undefined when it has no key.
HeldAt(map, spot) == IF spot \in DOMAIN map THEN map[spot] ELSE undefinedId
SpotsOf(map, id) == { spot \in Spots : HeldAt(map, spot) = id }
AtMostOneSpot(map) == \A id \in CompositeIds : Cardinality(SpotsOf(map, id)) <= 1

\* The map new is the map old after some id was assigned to some spot: the
\* spot holds it, the spot that held it before holds nothing, every other
\* spot holds what it held.
OneAssignment(old, new) ==
    \E spot \in Spots, id \in CompositeIds \cup { undefinedId } :
        /\ HeldAt(new, spot) = id
        /\ \A other \in Spots \ { spot } :
              HeldAt(new, other) =
                  IF HeldAt(old, other) = id THEN undefinedId ELSE HeldAt(old, other)

\* C18: after any sequence of handleLineupChange calls every player-season
\* id is assigned to at most one of the spots 1..9; assigning an id to a
\* spot removes it from the spot that held it before and leaves every other
\* spot's assignment unchanged.
C18_EachIdAtMostOneSpot ==
    [][ (Assigning /\ buildLineup' # buildLineup) =>
            (AtMostOneSpot(buildLineup') /\ OneAssignment(buildLineup, buildLineup')) ]_vars

\* Spot 1 has given up its id (it was assigned elsewhere, or cleared) and
\* keeps its key; spots 2 and 3 hold two different ids.
C18_Witness ==
    /\ Assigning
    /\ HeldAt(buildLineup, 1) = undefinedId
    /\ HeldAt(buildLineup, 2) = "ps1"
    /\ HeldAt(buildLineup, 3) = "ps2"
    /\ 1 \in DOMAIN buildLineup

--------------------------------------------------------------------------
AllHands(sps) == [ i \in 1 .. Len(sps) |-> sps[i].battingHand ]
HasSwitch == \E i \in 1 .. Len(selectedPlayerSeasons) :
                 selectedPlayerSeasons[i].battingHand = "SWITCH"

RECURSIVE ArrangeWithReset(_, _, _, _)
\* Some order of the tokens in remaining, placed after a run of `streak`
\* tokens of hand `last`, keeps every run of LEFT within mch[1] and every
\* run of RIGHT within mch[2] (a cap of 0 is no cap); a SWITCH token is
\* placed like any other and ends the run before it.
ArrangeWithReset(mch, remaining, last, streak) ==
    IF Len(remaining) = 0 THEN TRUE
    ELSE \E i \in TryIndices(remaining) :
            LET hand == remaining[i]
                rest == RemoveAt(remaining, i)
                run  == IF hand = last THEN streak + 1 ELSE 1
                cap  == IF hand = "LEFT" THEN mch[1]
                        ELSE IF hand = "RIGHT" THEN mch[2] ELSE 0
            IN  IF hand = "SWITCH"
                THEN ArrangeWithReset(mch, rest, "SWITCH", 0)
                ELSE /\ ~(cap > 0 /\ run > cap)
                     /\ ArrangeWithReset(mch, rest, hand, run)

--------------------------------------------------------------------------
ThreeStepAtConstraints == pc = "build3" /\ threeStep = 1
ThreeStepNineLeftRight == Len(hands(threeSelected)) = NumSlots

\* C20: in the three-step controller, for every roster of nine LEFT/RIGHT
\* hitters, isConstraintImpossible is false at step 1 while
\* maxConsecutiveHandedness is [0, 0], and the Next button is not disabled
\* by the handedness check.
C20_ThreeStepZeroCapsNoConstraint ==
    (ThreeStepAtConstraints /\ ThreeStepNineLeftRight /\ threeCaps = << 0, 0 >>)
        => /\ ~ThreeStep_isConstraintImpossible(threeStep, threeSelected, threeCaps)
           /\ ~ThreeStep_NextDisabled(threeStep, threeSelected, threeCaps)

--------------------------------------------------------------------------
HandsChecked == pc = "checked"

\* C21: the handedness check accepts a lineup exactly when every run of
\* same-handed hitters around the nine-slot cycle, each slot counted once,
\* is within its positive cap, for every hand vector and caps 0..9.
C21_WalkIsCyclicRule ==
    HandsChecked =>
        (walkVerdict = "accept" <=> CyclicRule(walkHands, walkCaps[1], walkCaps[2]))

--------------------------------------------------------------------------
InInning == pc = "inning"
Batted == InInning /\ InInning' /\ Len(window') = Len(window) + 1
Batter == window'[Len(window')]
TotalMass(d) == SumOver(InningStates, d)

\* The play: outs never go down, go up by one and only on an OUT; on an
\* OUT no run scores and the runners stay where they are (after the third
\* out the half-inning is over and no base is occupied any more).
OutsOnThePlay ==
    /\ atBat'.outs >= atBat.outs
    /\ atBat'.outs # atBat.outs => event' = "OUT" /\ atBat'.outs = atBat.outs + 1
    /\ (event' = "OUT" /\ atBat # ThreeOuts) =>
          /\ atBat'.outs = atBat.outs + 1
          /\ runsOnPlay' = 0
          /\ atBat' # ThreeOuts => atBat'.bases = atBat.bases

\* "3 outs" is absorbing: the play stays in it and scores nothing, no mass
\* leaves it and its mass adds no expected runs.
ThreeOutsAbsorbing ==
    /\ atBat = ThreeOuts => atBat' = ThreeOuts /\ runsOnPlay' = 0
    /\ \A t \in InningStates \ {ThreeOuts} :
          MassMoved(distribution, Batter, ThreeOuts, t) = 0
    /\ MassMoved(distribution, Batter, ThreeOuts, ThreeOuts)
          = distribution[ThreeOuts] * RateDenominator
    /\ distribution'[ThreeOuts] >= distribution[ThreeOuts] * RateDenominator
    /\ ExpectedRuns(distribution, Batter, {ThreeOuts}) = 0
    /\ runsIncrement' = ExpectedRuns(distribution, Batter, InningStates \ {ThreeOuts})

\* The masses are probabilities that sum to 1.
MassIsOne ==
    /\ \A s \in InningStates : distribution'[s] >= 0
    /\ TotalMass(distribution') = massDenominator'

\* C22: in the plate-appearance model the out count never decreases and
\* rises by exactly 1 only on an OUT, with the runners unchanged on an OUT;
\* "3 outs" is absorbing (no mass moves out of it, no expected runs come
\* from it); the total probability mass is 1 after every transition.
C22_OutsAbsorbingMassOne ==
    [][ Batted => OutsOnThePlay /\ ThreeOutsAbsorbing /\ MassIsOne ]_vars

\* The fourth hitter of the window bats with mass in "3 outs" and with the
\* play already over: its last event is not an OUT, so the three outs came
\* before him; his plate appearance still has expected runs from the mass
\* of the other states.
C22_Witness ==
    /\ InInning /\ Len(window) = WindowLength
    /\ atBat = ThreeOuts /\ event # "OUT"
    /\ distribution[ThreeOuts] > 0
    /\ distribution[ThreeOuts] < massDenominator
    /\ runsIncrement > 0

--------------------------------------------------------------------------
PayloadSent == pc = "page" /\ pagePayload.sent

\* How often the player-season at place i of the selection is sent.
TimesSent(i) ==
    Cardinality({ spot \in DOMAIN pagePayload.selectedLineup :
                     pagePayload.selectedLineup[spot] = i })
      + Cardinality({ n \in DOMAIN pagePayload.unassignedPlayers :
                         pagePayload.unassignedPlayers[n] = i })

\* C23: the payload built at submit contains every selected player-season
\* exactly once, at its assigned spot in selectedLineup or in
\* unassignedPlayers.
C23_PayloadHasEachOnce ==
    PayloadSent => \A i \in DOMAIN pageSelected : TimesSent(i) = 1

--------------------------------------------------------------------------
\* C26: when handleSubmit is called, every non-empty entry of the lineup
\* map holds the compositeId of a selected player-season.
C26_LineupHoldsSelectedIds ==
    PayloadSent =>
        \A spot \in DOMAIN pageLineup :
            pageLineup[spot] # undefinedId =>
                pageLineup[spot] \in CompositeIdsOf(pageSelected)

--------------------------------------------------------------------------
OnPage == pc = "page"

\* C27: the compositeIds of the selected player-seasons are pairwise
\* distinct.
C27_CompositeIdsDistinct ==
    OnPage =>
        \A i, j \in DOMAIN pageSelected :
            i # j => pageSelected[i].compositeId # pageSelected[j].compositeId

--------------------------------------------------------------------------
\* C28: no more than nine player-seasons are selected.
C28_AtMostNineSelected ==
    OnPage => Len(pageSelected) <= NumSlots

--------------------------------------------------------------------------
Responded == pc = "responded" /\ status = 200

\* The request has k named entries and 9 - k unassigned players, all named.
NineNamedPlayers ==
    /\ Len(unassignedPlayers) = NumSlots - Cardinality(NamedSpots)
    /\ \A i \in DOMAIN unassignedPlayers : unassignedPlayers[i].name # << >>

\* The response's entry for the unassigned player at place i of the list.
PlacedEntry(i) == ResponseEntry(unassignedPlayers[i], FALSE)

\* C24: given k named entries in selectedLineup and 9 - k named unassigned
\* players, the response lineup fills the spots 1..9, each with one player,
\* and holds every player of the request exactly once, whichever spots the
\* random choice takes.
C24_NineSpotsEachPlayerOnce ==
    (Responded /\ NineNamedPlayers) =>
        /\ DOMAIN handlerLineup = Spots
        /\ \A spot \in NamedSpots :
              handlerLineup[spot] = ResponseEntry(selectedLineup[spot], TRUE)
        /\ \A spot \in Spots \ NamedSpots :
              \E i \in DOMAIN unassignedPlayers : handlerLineup[spot] = PlacedEntry(i)
        /\ \A i \in DOMAIN unassignedPlayers :
              Cardinality({ spot \in Spots \ NamedSpots : handlerLineup[spot] = PlacedEntry(i) })
                = Cardinality({ j \in DOMAIN unassignedPlayers : PlacedEntry(j) = PlacedEntry(i) })

\* Six named entries and three unassigned players, two of them with the
\* same name, have been answered; the random choice gave the third of them
\* a spot other than the last free one.
C24_Witness ==
    /\ Responded /\ NineNamedPlayers
    /\ Len(unassignedPlayers) = MaxUnassigned
    /\ unassignedPlayers[1] = unassignedPlayers[2]
    /\ unassignedPlayers[1] # unassignedPlayers[3]
    /\ \E spot \in Spots \ NamedSpots :
          /\ handlerLineup[spot] = PlacedEntry(3)
          /\ \E later \in Spots \ NamedSpots : later > spot

--------------------------------------------------------------------------
\* The four hitters of the score term of slot p.
WindowOf(lineup, p) ==
    << lineup[(p - 3) % NumSlots], lineup[(p - 2) % NumSlots],
       lineup[(p - 1) % NumSlots], lineup[p] >>

DistinctWindow(lineup, p) ==
    LET w == WindowOf(lineup, p) IN Distinct4(w[1], w[2], w[3], w[4])

RECURSIVE UnmaskedScoreFrom(_, _)
\* The score with every term taken from the BDNRP numbers themselves, none
\* from the zeros of the repeated-index convention.
UnmaskedScoreFrom(lineup, p) ==
    IF p = NumSlots THEN 0
    ELSE LET w == WindowOf(lineup, p)
         IN  bdnrp_value(val, w[1], w[2], w[3], w[4]) * weight(p)
               + UnmaskedScoreFrom(lineup, p + 1)

\* C25: for every lineup the search enumerates and every slot p, the hitters
\* at (p-3) mod 9, (p-2) mod 9, (p-1) mod 9 and p are pairwise distinct, so
\* no term of a returned score is a zero of the repeated-index convention.
C25_ScoreReadsDistinctQuadruples ==
    Answered =>
        /\ \A lineup \in Candidates : \A p \in Slots : DistinctWindow(lineup, p)
        /\ \A r \in DOMAIN top_list.lineups :
              top_list.lineups[r].score = UnmaskedScoreFrom(top_list.lineups[r].lineup, 0)

\* Two lineups are returned; the better one has another hitter than the
\* request's first in slot 0, whose window wraps to slots 6, 7 and 8.
C25_Witness ==
    /\ Answered
    /\ Len(top_list.lineups) >= 2
    /\ top_list.lineups[1].lineup[0] # Occupant(0)
    /\ top_list.lineups[1].score > top_list.lineups[2].score

==========================================================================
